---- MODULE Spec2Model ----
(***************************************************************************)
(* matrix-n (src/src/mod.js): the dense matrix store MatrixN and its       *)
(* numerical layer (determinant, inverse, rank, LU decomposition), with    *)
(* the arithmetic the code performs: binary64 expressions, binary32        *)
(* element buffers.                                                        *)
(***************************************************************************)
EXTENDS Integers, Sequences, FiniteSets, TLC

(***************************************************************************)
(* Numbers.  Every arithmetic expression of mod.js is evaluated on         *)
(* IEEE-754 binary64 values (the host language's number type) and every    *)
(* store into `elements` (a Float32Array) rounds to binary32.  A number is *)
(* a record [k, s, m, e]: k is "fin", "inf" or "nan", s the sign bit, and  *)
(* a finite value is (-1)^s * m * 2^e with m an odd natural number (or     *)
(* zero, e = 0), so that equal values have equal records.  Magnitudes are  *)
(* naturals of arbitrary size, kept as little-endian sequences of limbs    *)
(* below Base without leading zero limb.                                   *)
(***************************************************************************)
Base == 2^15

Limb(a, i) == IF 1 <= i /\ i <= Len(a) THEN a[i] ELSE 0

Greatest(S) == CHOOSE x \in S : \A y \in S : y <= x

\* a without its leading zero limbs
NatNorm(a) == SubSeq(a, 1, Greatest({0} \cup {i \in 1..Len(a) : a[i] # 0}))

NatFromInt(n) ==
  IF n = 0 THEN <<>>
  ELSE IF n < Base THEN <<n>>
  ELSE IF n < Base * Base THEN <<n % Base, n \div Base>>
  ELSE <<n % Base, (n \div Base) % Base, n \div (Base * Base)>>

\* the natural number of limbs s[k] below 2 * Base: a carry is 0 or 1, is
\* produced where s[j] >= Base and goes through the limbs that are Base - 1
NatCarried(s) ==
  NatNorm([k \in 1..Len(s) |->
             (s[k] + (IF \E j \in 1..(k - 1) :
                           s[j] >= Base /\ \A l \in (j + 1)..(k - 1) : s[l] = Base - 1
                      THEN 1 ELSE 0)) % Base])

\* the natural number whose limb k would be c[k], for c[k] in 0..Base^2 - 1
NatCarry(c) ==
  NatCarried(SubSeq([k \in 1..(Len(c) + 2) |->
                       (Limb(c, k) % Base) + (Limb(c, k - 1) \div Base)],
                    1, Len(c) + 2))

NatAdd(a, b) ==
  NatCarry(SubSeq([k \in 1..(Len(a) + Len(b)) |-> Limb(a, k) + Limb(b, k)],
                  1, Len(a) + Len(b)))

\* a - b for a >= b: a borrow is produced where a[j] < b[j] and goes through
\* the limbs where a and b agree
NatSub(a, b) ==
  NatNorm([k \in 1..Len(a) |->
             (a[k] - Limb(b, k) + Base
              - (IF \E j \in 1..(k - 1) :
                      a[j] < Limb(b, j) /\ \A l \in (j + 1)..(k - 1) : a[l] = Limb(b, l)
                 THEN 1 ELSE 0)) % Base])

\* -1, 0 or 1 as a < b, a = b or a > b: the lengths decide, then the
\* greatest limb where they differ
NatCmpAt(a, b, i) ==
  CASE Len(a) < Len(b) -> -1
    [] Len(a) > Len(b) -> 1
    [] Len(a) = Len(b) /\ i = 0 -> 0
    [] Len(a) = Len(b) /\ i > 0 -> IF a[i] < b[i] THEN -1 ELSE 1

NatCmp(a, b) == NatCmpAt(a, b, Greatest({0} \cup {i \in 1..Len(a) : a[i] # Limb(b, i)}))

\* a * d for a limb d
NatMulLimb(a, d) == NatCarry(SubSeq([k \in 1..Len(a) |-> a[k] * d], 1, Len(a)))

\* what the limbs 1..i of a bring to the limb k of a * b: the low halves of
\* the products of that weight and the high halves of those one below
RECURSIVE NatMulColumn(_, _, _, _)
NatMulColumn(a, b, k, i) ==
  IF i = 0 THEN 0
  ELSE ((a[i] * Limb(b, k + 1 - i)) % Base) + ((a[i] * Limb(b, k - i)) \div Base)
       + NatMulColumn(a, b, k, i - 1)

NatMul(a, b) ==
  NatCarry(SubSeq([k \in 1..(Len(a) + Len(b)) |-> NatMulColumn(a, b, k, Len(a))],
                  1, Len(a) + Len(b)))

\* number of significant bits of a limb
IntBits(n) == CHOOSE k \in 0..15 : n < 2^k /\ (k = 0 \/ n >= 2^(k - 1))

\* number of significant bits of a
NatBits(a) == IF a = <<>> THEN 0 ELSE 15 * (Len(a) - 1) + IntBits(a[Len(a)])

\* a * 2^k
NatShl(a, k) ==
  IF a = <<>> THEN a
  ELSE [i \in 1..(k \div 15) |-> 0]
       \o NatNorm([i \in 1..(Len(a) + 1) |->
                     ((Limb(a, i) * 2^(k % 15)) % Base)
                     + ((Limb(a, i - 1) * 2^(k % 15)) \div Base)])

\* floor(a / 2^k)
NatShr(a, k) ==
  NatNorm([i \in 1..(Len(a) - (k \div 15)) |->
             (a[i + (k \div 15)] \div 2^(k % 15))
             + (Limb(a, i + (k \div 15) + 1) % 2^(k % 15)) * 2^(15 - (k % 15))])

\* bit i of a (bit 0 is the least significant)
NatBit(a, i) == (Limb(a, (i \div 15) + 1) \div 2^(i % 15)) % 2

\* a mod 2^k = 0
NatLowZero(a, k) ==
  /\ \A i \in 1..(k \div 15) : Limb(a, i) = 0
  /\ Limb(a, (k \div 15) + 1) % 2^(k % 15) = 0

\* the number of zero bits below the lowest one bit of a (a > 0)
NatTrailingZeros(a) ==
  CHOOSE k \in 0..(15 * Len(a)) : NatBit(a, k) = 1 /\ NatLowZero(a, k)

\* the greatest d with b * d <= r, for r < b * Base and b of k limbs with
\* b[k] >= Base / 2: est, the two leading limbs of r by the leading limb of
\* b (at most Base - 1), is at least d and at most d + 2
DigitFrom(r, b, est) ==
  est - Cardinality({j \in 0..1 : j < est /\ NatCmp(NatMulLimb(b, est - j), r) > 0})

Digit(r, b) ==
  DigitFrom(r, b, Base - 1 - Greatest({0, Base - 1 -
              ((Limb(r, Len(b) + 1) * Base + Limb(r, Len(b))) \div b[Len(b)])}))

\* <<quotient, remainder>> of a by b, schoolbook from the limb st.i of a
\* down, with st.q and st.r those of the limbs above it; d is the next limb
\* of the quotient and r2 the remainder it is taken from
RECURSIVE NatDivFrom(_, _, _)
NatDivDigit(a, b, st, r2, d) ==
  NatDivFrom(a, b, [i |-> st.i - 1, q |-> <<d>> \o st.q,
                    r |-> NatSub(r2, NatMulLimb(b, d))])

NatDivLimb(a, b, st, r2) == NatDivDigit(a, b, st, r2, Digit(r2, b))

NatDivFrom(a, b, st) ==
  IF st.i = 0 THEN <<NatNorm(st.q), st.r>>
  ELSE NatDivLimb(a, b, st,
                  IF st.r = <<>> /\ a[st.i] = 0 THEN <<>> ELSE <<a[st.i]>> \o st.r)

\* <<quotient, remainder>> of a by b for b with a leading limb of at least
\* Base / 2: the limbs of a that are too few to hold b start the remainder
NatDivLong(a, b, i) ==
  IF i <= 0 THEN << <<>>, a >>
  ELSE NatDivFrom(a, b, [i |-> i, q |-> <<>>, r |-> SubSeq(a, i + 1, Len(a))])

NatDivScaled(qr, sh) == <<qr[1], NatShr(qr[2], sh)>>

NatDivBy(a, b, sh) == NatDivScaled(NatDivLong(a, b, Len(a) - Len(b) + 1), sh)

NatDivShift(a, b, sh) == NatDivBy(NatShl(a, sh), NatShl(b, sh), sh)

\* <<quotient, remainder>> of a by b (b > 0); both are scaled for the
\* leading limb of the divisor to be at least Base / 2
NatDivMod(a, b) == NatDivShift(a, b, 15 - IntBits(b[Len(b)]))

NaN == [k |-> "nan", s |-> 0, m |-> <<>>, e |-> 0]
Infinity(s) == [k |-> "inf", s |-> s, m |-> <<>>, e |-> 0]
Zero(s) == [k |-> "fin", s |-> s, m |-> <<>>, e |-> 0]

\* the finite value (-1)^s * m * 2^e, exactly, in canonical form
Fin(s, m, e) ==
  IF m = <<>> THEN Zero(s)
  ELSE [k |-> "fin", s |-> s, m |-> NatShr(m, NatTrailingZeros(m)),
        e |-> e + NatTrailingZeros(m)]

FromInt(n) == Fin(IF n < 0 THEN 1 ELSE 0, NatFromInt(IF n < 0 THEN -n ELSE n), 0)

IsNaN(x) == x.k = "nan"
IsZero(x) == x.k = "fin" /\ x.m = <<>>

\* binary32 and binary64: significand bits, exponent of the least
\* subnormal bit, and the power of two every finite value is below
Binary32 == [p |-> 24, emin |-> -149, emax |-> 128]
Binary64 == [p |-> 53, emin |-> -1074, emax |-> 1024]

\* (-1)^s * m * 2^e when it is below 2^emax, else the infinity
Bounded(fmt, s, m, e) ==
  IF NatBits(m) + e > fmt.emax THEN Infinity(s) ELSE Fin(s, m, e)

\* (-1)^s * m * 2^e without its sh low bits, to nearest, ties to even
RoundAt(fmt, s, m, e, sh) ==
  IF sh <= 0 THEN Bounded(fmt, s, m, e)
  ELSE Bounded(fmt, s,
               NatAdd(NatShr(m, sh),
                      IF NatBit(m, sh - 1) = 1
                         /\ (~NatLowZero(m, sh - 1) \/ NatBit(m, sh) = 1)
                      THEN <<1>> ELSE <<>>),
               e + sh)

\* (-1)^s * m * 2^e rounded to the format, to nearest, ties to even: the
\* bits below the p leading ones and below 2^emin are dropped
RoundTo(fmt, s, m, e) ==
  IF m = <<>> THEN Zero(s)
  ELSE RoundAt(fmt, s, m, e, Greatest({NatBits(m) - fmt.p, fmt.emin - e}))

\* Float32Array store: the binary32 value nearest to the binary64 value x
Fround(x) == IF x.k = "fin" THEN RoundTo(Binary32, x.s, x.m, x.e) ELSE x

Neg(x) == IF x.k = "nan" THEN x ELSE [x EXCEPT !.s = 1 - x.s]
Abs(x) == IF x.k = "nan" THEN x ELSE [x EXCEPT !.s = 0]

\* x * y in binary64
Mul(x, y) ==
  CASE x.k = "nan" \/ y.k = "nan" -> NaN
    [] x.k = "inf" /\ y.k # "nan" -> IF IsZero(y) THEN NaN ELSE Infinity((x.s + y.s) % 2)
    [] x.k = "fin" /\ y.k = "inf" -> IF IsZero(x) THEN NaN ELSE Infinity((x.s + y.s) % 2)
    [] x.k = "fin" /\ y.k = "fin" ->
         RoundTo(Binary64, (x.s + y.s) % 2, NatMul(x.m, y.m), x.e + y.e)

\* the exponent of the power of two that a finite x # 0 is below
Top(x) == NatBits(x.m) + x.e

\* the sum of (-1)^sx * mx * 2^e and (-1)^sy * my * 2^e, both nonzero, in
\* binary64; c compares mx with my
AddSigned(sx, mx, sy, my, e, c) ==
  RoundTo(Binary64,
          CASE sx = sy -> sx [] sx # sy /\ c > 0 -> sx [] sx # sy /\ c < 0 -> sy
            [] OTHER -> 0,
          CASE sx = sy -> NatAdd(mx, my) [] sx # sy /\ c < 0 -> NatSub(my, mx)
            [] OTHER -> NatSub(mx, my),
          e)

AddAligned(sx, mx, sy, my, e) == AddSigned(sx, mx, sy, my, e, NatCmp(mx, my))

AddFinite(x, y, e) == AddAligned(x.s, NatShl(x.m, x.e - e), y.s, NatShl(y.m, y.e - e), e)

\* x + y in binary64 (an operand more than p + 3 binary places below the
\* other cannot change it)
Add(x, y) ==
  CASE x.k = "nan" \/ y.k = "nan" -> NaN
    [] x.k = "inf" /\ y.k = "inf" -> IF y.s # x.s THEN NaN ELSE x
    [] x.k = "inf" /\ y.k = "fin" -> x
    [] x.k = "fin" /\ y.k = "inf" -> y
    [] x.k = "fin" /\ y.k = "fin" /\ x.m = <<>> ->
         IF y.m = <<>> THEN Zero(IF x.s = 1 /\ y.s = 1 THEN 1 ELSE 0) ELSE y
    [] x.k = "fin" /\ y.k = "fin" /\ x.m # <<>> /\ y.m = <<>> -> x
    [] OTHER ->
         CASE Top(x) - Top(y) > Binary64.p + 3 -> x
           [] Top(y) - Top(x) > Binary64.p + 3 -> y
           [] OTHER -> AddFinite(x, y, IF x.e < y.e THEN x.e ELSE y.e)

\* x - y in binary64
Sub(x, y) == Add(x, Neg(y))

\* the quotient <<q, r>> of the significands as a binary64 value: q with,
\* below it, one more bit that says whether the remainder r is zero
DivRound(s, qr, e) ==
  IF qr[2] = <<>> THEN RoundTo(Binary64, s, qr[1], e)
  ELSE RoundTo(Binary64, s, NatAdd(NatShl(qr[1], 1), <<1>>), e - 1)

\* x / y for finite nonzero x and y, the quotient of the significands
\* computed to two bits more than the format holds
DivFinite(x, y, sh) ==
  DivRound((x.s + y.s) % 2, NatDivMod(NatShl(x.m, sh), y.m), x.e - y.e - sh)

\* x / y in binary64
Div(x, y) ==
  CASE x.k = "nan" \/ y.k = "nan" -> NaN
    [] x.k = "inf" /\ y.k = "inf" -> NaN
    [] x.k = "inf" /\ y.k = "fin" -> Infinity((x.s + y.s) % 2)
    [] x.k = "fin" /\ y.k = "inf" -> Zero((x.s + y.s) % 2)
    [] x.k = "fin" /\ y.k = "fin" /\ y.m = <<>> ->
         IF x.m = <<>> THEN NaN ELSE Infinity((x.s + y.s) % 2)
    [] x.k = "fin" /\ y.k = "fin" /\ y.m # <<>> /\ x.m = <<>> -> Zero((x.s + y.s) % 2)
    [] OTHER ->
         DivFinite(x, y, Greatest({0, Binary64.p + 2 + NatBits(y.m) - NatBits(x.m)}))

\* d < 0
Negative(d) == d.k # "nan" /\ d.s = 1 /\ ~IsZero(d)

\* x < y (false when either is NaN)
Less(x, y) == x.k # "nan" /\ y.k # "nan" /\ Negative(Sub(x, y))

\* x === y on numbers (NaN differs from itself, -0 equals +0)
NumEq(x, y) ==
  /\ x.k # "nan" /\ y.k # "nan"
  /\ \/ x = y
     \/ IsZero(x) /\ IsZero(y)

(***************************************************************************)
(* The store.  The heap h is the sequence of the Float32Array buffers      *)
(* allocated so far; a MatrixN object is [rows, cols, elements] with       *)
(* elements the index of its buffer in the heap, so that two objects can   *)
(* share a buffer.  Offsets into a buffer are the code's, from 0.  An      *)
(* operation returns [h, err, v]: the heap it leaves, the message of the   *)
(* Error it throws ("" when it returns) and the value it returns.          *)
(***************************************************************************)
Undefined == [k |-> "undefined", s |-> 0, m |-> <<>>, e |-> 0]

Return(h, v) == [h |-> h, err |-> "", v |-> v]
Throw(h, msg) == [h |-> h, err |-> msg, v |-> Undefined]

\* this.elements[i]
Load(h, this, i) == h[this.elements][i + 1]

\* this.elements[i] = x
Store(h, this, i, x) == [h EXCEPT ![this.elements][i + 1] = Fround(x)]

\* this.elements, with the code's offsets
Elements(h, this) == [i \in 0..(this.rows * this.cols - 1) |-> Load(h, this, i)]

\* no initialData argument
NoData == [kind |-> "none", data |-> <<>>]

\* an array, as an element of initialData: Array.isArray holds of it alone
Row(items) == [k |-> "array", s |-> 0, m |-> <<>>, e |-> 0, items |-> items]

\* Array.isArray(x), for x a number or an array
IsArray(x) == x.k = "array"

\* a flat array of numbers, row-major
Flat(data) == [kind |-> "array", data |-> data]
\* an array of arrays of numbers
Nested(data) == [kind |-> "array", data |-> [i \in 1..Len(data) |-> Row(data[i])]]

\* the number that a typed array stores for x: x when it is a number; for
\* an array, the number its string is read as (0 for [], the element itself
\* for one element, with -0 read back as 0, NaN for more elements)
ToNumber(x) ==
  CASE ~IsArray(x) -> x
    [] IsArray(x) /\ Len(x.items) = 0 -> Zero(0)
    [] IsArray(x) /\ Len(x.items) = 1 ->
         IF IsZero(x.items[1]) THEN Zero(0) ELSE x.items[1]
    [] OTHER -> NaN

\* Array.isArray(initialData[0])
IsNested(initialData) == Len(initialData.data) > 0 /\ IsArray(initialData.data[1])

\* the 2D array data2D disagrees with rows and cols: the throws of the loop
MismatchedRows(data2D, rows, cols) ==
  \/ Len(data2D) # rows
  \/ \E i \in 1..rows : ~IsArray(data2D[i]) \/ Len(data2D[i].items) # cols

\* the element x of rows * cols that initialData gives, in row-major order:
\* data2D[i][j], or what this.elements.set(data1D) stores
InitialElement(cols, initialData, x) ==
  IF IsNested(initialData)
  THEN initialData.data[((x - 1) \div cols) + 1].items[((x - 1) % cols) + 1]
  ELSE ToNumber(initialData.data[x])

\* new MatrixN(rows, cols, initialData)
New(h, rows, cols, initialData) ==
  CASE rows <= 0 \/ cols <= 0 -> Throw(h, "Matrix dimensions must be positive.")
    [] rows > 0 /\ cols > 0 /\ initialData.kind = "none" ->
         Return(Append(h, [i \in 1..(rows * cols) |-> Zero(0)]),
                [rows |-> rows, cols |-> cols, elements |-> Len(h) + 1])
    [] rows > 0 /\ cols > 0 /\ initialData.kind = "array" /\ IsNested(initialData)
       /\ MismatchedRows(initialData.data, rows, cols) ->
         Throw(Append(h, [i \in 1..(rows * cols) |-> Zero(0)]),
               "Initial data dimensions do not match matrix dimensions.")
    [] rows > 0 /\ cols > 0 /\ initialData.kind = "array" /\ ~IsNested(initialData)
       /\ Len(initialData.data) # rows * cols ->
         Throw(Append(h, [i \in 1..(rows * cols) |-> Zero(0)]),
               "Initial flat data length does not match matrix dimensions.")
    [] OTHER ->
         Return(Append(h, SubSeq([x \in 1..(rows * cols) |->
                                    Fround(InitialElement(cols, initialData, x))],
                                 1, rows * cols)),
                [rows |-> rows, cols |-> cols, elements |-> Len(h) + 1])

\* the loop of identity with the offset i * size: ones down the first column
RECURSIVE identityFirstColumn(_, _, _, _)
identityFirstColumn(h, mat, size, n) ==
  IF n = 0 THEN h
  ELSE Store(identityFirstColumn(h, mat, size, n - 1), mat, (n - 1) * size, FromInt(1))

\* mat after mat.elements[i * size + i] = 1 for the i below n
RECURSIVE identityLoop(_, _, _, _)
identityLoop(h, mat, size, n) ==
  IF n = 0 THEN h
  ELSE Store(identityLoop(h, mat, size, n - 1), mat, (n - 1) * size + (n - 1), FromInt(1))

\* the loop of identity on mat, the outcome of new MatrixN(size, size)
identityFill(mat, size) ==
  IF mat.err # "" THEN mat ELSE Return(identityLoop(mat.h, mat.v, size, size), mat.v)

\* MatrixN.identity(size)
identity(h, size) == identityFill(New(h, size, size, NoData), size)

\* MatrixN.zeros(rows, cols)
zeros(h, rows, cols) == New(h, rows, cols, NoData)

\* this.getElement(row, col)
getElement(h, this, row, col) ==
  IF row < 0 \/ row >= this.rows \/ col < 0 \/ col >= this.cols
  THEN Throw(h, "Index out of bounds.")
  ELSE Return(h, Load(h, this, row * this.cols + col))

\* a setElement that writes the first element before it throws
setElementThenThrow(h, this, row, col, value) ==
  IF row < 0 \/ row >= this.rows \/ col < 0 \/ col >= this.cols
  THEN Throw(Store(h, this, 0, value), "Index out of bounds.")
  ELSE Return(Store(h, this, row * this.cols + col, value), this)

\* a setElement that takes the buffer as column-major
setElementColumnMajor(h, this, row, col, value) ==
  IF row < 0 \/ row >= this.rows \/ col < 0 \/ col >= this.cols
  THEN Throw(h, "Index out of bounds.")
  ELSE Return(Store(h, this, col * this.rows + row, value), this)

\* this.setElement(row, col, value)
setElement(h, this, row, col, value) ==
  IF row < 0 \/ row >= this.rows \/ col < 0 \/ col >= this.cols
  THEN Throw(h, "Index out of bounds.")
  ELSE Return(Store(h, this, row * this.cols + col, value), this)

\* getElement and setElement where the caller's loops keep the indices in range
Get(h, this, row, col) == getElement(h, this, row, col).v
Set(h, this, row, col, value) == setElement(h, this, row, col, value).h

\* this.isSquare
isSquare(this) == this.rows = this.cols

\* newMat.elements.set(this.elements), on newMat the outcome of
\* new MatrixN(this.rows, this.cols): the whole buffer copied
CopyInto(newMat, this) ==
  Return([newMat.h EXCEPT ![newMat.v.elements] = newMat.h[this.elements]], newMat.v)

\* a clone that shares the receiver's buffer: no new MatrixN, no copy
cloneShared(h, this) == Return(h, this)

\* the object that super(...) made, as an instance of the class that
\* extends MatrixN; an object without class is a MatrixN and no more
Extended(made, name) ==
  IF made.err # "" THEN made
  ELSE Return(made.h, [rows |-> made.v.rows, cols |-> made.v.cols,
                       elements |-> made.v.elements, class |-> name])

ClassOf(this) == IF "class" \in DOMAIN this THEN this.class ELSE "MatrixN"

\* this.clone()
clone(h, this) == CopyInto(New(h, this.rows, this.cols, NoData), this)

\* the constructor of a class that extends MatrixN for one size: the tests
\* of initialData, then super(size, size, initialData); the object made is
\* of that class
Fixed(h, class, size, initialData) ==
  CASE initialData.kind = "array" /\ IsNested(initialData)
       /\ MismatchedRows(initialData.data, size, size) ->
         Throw(h, class.must)
    [] initialData.kind = "array" /\ ~IsNested(initialData)
       /\ Len(initialData.data) # size * size ->
         Throw(h, class.flat)
    [] OTHER -> Extended(New(h, size, size, initialData), class.name)

\* new Mat2(initialData)
Mat2(h, initialData) ==
  Fixed(h, [name |-> "Mat2", must |-> "Mat2 initial data must be 2x2.",
            flat |-> "Mat2 initial flat data must have 4 elements."], 2, initialData)

\* new Mat3(initialData)
Mat3(h, initialData) ==
  Fixed(h, [name |-> "Mat3", must |-> "Mat3 initial data must be 3x3.",
            flat |-> "Mat3 initial flat data must have 9 elements."], 3, initialData)

\* new Mat4(initialData)
Mat4(h, initialData) ==
  Fixed(h, [name |-> "Mat4", must |-> "Mat4 initial data must be 4x4.",
            flat |-> "Mat4 initial flat data must have 16 elements."], 4, initialData)

\* a sum that stops at its first term
multiplySumFirst(h, this, other, i, j, n) ==
  IF n = 0 THEN FromInt(0)
  ELSE Mul(Load(h, this, i * this.cols), Load(h, other, j))

\* sum += this.elements[i * this.cols + k] * other.elements[k * other.cols + j],
\* for the k below n
RECURSIVE multiplySum(_, _, _, _, _, _)
multiplySum(h, this, other, i, j, n) ==
  IF n = 0 THEN FromInt(0)
  ELSE Add(multiplySum(h, this, other, i, j, n - 1),
           Mul(Load(h, this, i * this.cols + (n - 1)),
               Load(h, other, (n - 1) * other.cols + j)))

\* the loops of multiply on result, the outcome of
\* new MatrixN(this.rows, other.cols)
multiplyInto(result, this, other) ==
  Return([result.h EXCEPT ![result.v.elements] =
            SubSeq([x \in 1..(this.rows * other.cols) |->
                      Fround(multiplySum(result.h, this, other, (x - 1) \div other.cols,
                                         (x - 1) % other.cols, this.cols))],
                   1, this.rows * other.cols)],
         result.v)

\* this.multiply(other)
multiply(h, this, other) ==
  IF this.cols # other.rows
  THEN Throw(h, "Number of columns in the first matrix must equal number of rows in the second matrix.")
  ELSE multiplyInto(New(h, this.rows, other.cols, NoData), this, other)

\* result.elements[x - 1] = values[x] for every x of the result, the outcome
\* of new MatrixN(rows, cols)
storeEach(result, values) ==
  Return([result.h EXCEPT ![result.v.elements] =
            SubSeq([x \in 1..(result.v.rows * result.v.cols) |-> Fround(values[x])],
                   1, result.v.rows * result.v.cols)],
         result.v)

\* a set without the test of the length: the buffer becomes the values,
\* however many
setUnchecked(h, this, values) ==
  Return([h EXCEPT ![this.elements] =
            SubSeq([x \in 1..Len(values) |-> Fround(ToNumber(values[x]))], 1, Len(values))],
         this)

\* a set that fills the buffer with the first of the values
setFill(h, this, values) ==
  IF Len(values) # Len(h[this.elements])
  THEN Throw(h, "Input array length does not match matrix dimensions.")
  ELSE Return([h EXCEPT ![this.elements] =
                 SubSeq([x \in 1..Len(values) |-> Fround(ToNumber(values[1]))],
                        1, Len(values))],
              this)

\* this.set(values), values an array of numbers
set(h, this, values) ==
  IF Len(values) # Len(h[this.elements])
  THEN Throw(h, "Input array length does not match matrix dimensions.")
  ELSE Return([h EXCEPT ![this.elements] =
                 SubSeq([x \in 1..Len(values) |-> Fround(ToNumber(values[x]))],
                        1, Len(values))],
              this)

\* an add whose result is of the class of the receiver
addOfClass(h, this, other) ==
  IF this.rows # other.rows \/ this.cols # other.cols
  THEN Throw(h, "Matrices must have the same dimensions for addition.")
  ELSE Extended(storeEach(New(h, this.rows, this.cols, NoData),
                          [x \in 1..Len(h[this.elements]) |->
                             Add(Load(h, this, x - 1), Load(h, other, x - 1))]),
                ClassOf(this))

\* an add that adds into the buffer of the receiver and returns the receiver
addInPlace(h, this, other) ==
  IF this.rows # other.rows \/ this.cols # other.cols
  THEN Throw(h, "Matrices must have the same dimensions for addition.")
  ELSE Return([h EXCEPT ![this.elements] =
                 SubSeq([x \in 1..Len(h[this.elements]) |->
                           Fround(Add(Load(h, this, x - 1), Load(h, other, x - 1)))],
                        1, Len(h[this.elements]))],
              this)

\* this.add(other)
add(h, this, other) ==
  IF this.rows # other.rows \/ this.cols # other.cols
  THEN Throw(h, "Matrices must have the same dimensions for addition.")
  ELSE storeEach(New(h, this.rows, this.cols, NoData),
                 [x \in 1..Len(h[this.elements]) |->
                    Add(Load(h, this, x - 1), Load(h, other, x - 1))])

\* an addSelf that returns a new matrix and leaves the receiver as it was
addSelfCopy(h, this, other) == add(h, this, other)

\* this.addSelf(other): this.elements[i] += other.elements[i] writes element
\* i after it read the elements i of both, also when other is this
addSelf(h, this, other) ==
  IF this.rows # other.rows \/ this.cols # other.cols
  THEN Throw(h, "Matrices must have the same dimensions for addition.")
  ELSE Return([h EXCEPT ![this.elements] =
                 SubSeq([x \in 1..Len(h[this.elements]) |->
                           Fround(Add(Load(h, this, x - 1), Load(h, other, x - 1)))],
                        1, Len(h[this.elements]))],
              this)

\* a subtract with its operands exchanged: other - this
subtractReversed(h, this, other) ==
  IF this.rows # other.rows \/ this.cols # other.cols
  THEN Throw(h, "Matrices must have the same dimensions for subtraction.")
  ELSE storeEach(New(h, this.rows, this.cols, NoData),
                 [x \in 1..Len(h[this.elements]) |->
                    Sub(Load(h, other, x - 1), Load(h, this, x - 1))])

\* this.subtract(other)
subtract(h, this, other) ==
  IF this.rows # other.rows \/ this.cols # other.cols
  THEN Throw(h, "Matrices must have the same dimensions for subtraction.")
  ELSE storeEach(New(h, this.rows, this.cols, NoData),
                 [x \in 1..Len(h[this.elements]) |->
                    Sub(Load(h, this, x - 1), Load(h, other, x - 1))])

\* this.multiplyScalar(scalar)
multiplyScalar(h, this, scalar) ==
  storeEach(New(h, this.rows, this.cols, NoData),
            [x \in 1..Len(h[this.elements]) |-> Mul(Load(h, this, x - 1), scalar)])

\* this.divideScalar(scalar): scalar === 0 holds of 0 and of -0
divideScalar(h, this, scalar) ==
  IF IsZero(scalar)
  THEN Throw(h, "Division by zero.")
  ELSE storeEach(New(h, this.rows, this.cols, NoData),
                 [x \in 1..Len(h[this.elements]) |-> Div(Load(h, this, x - 1), scalar)])

\* a transpose that exchanges rows and cols and copies the buffer in its order
transposeShape(h, this) ==
  storeEach(New(h, this.cols, this.rows, NoData),
            [x \in 1..(this.rows * this.cols) |-> Load(h, this, x - 1)])

\* this.transpose(): the element x of the result, at j * this.rows + i, is
\* this.elements[i * this.cols + j]
transpose(h, this) ==
  storeEach(New(h, this.cols, this.rows, NoData),
            [x \in 1..(this.rows * this.cols) |->
               Load(h, this, ((x - 1) % this.rows) * this.cols + ((x - 1) \div this.rows))])

\* a minor that skips nothing: the last row and the last column are left out
SkipNone(ri, r) == ri

\* the row or column of this that the row or column ri of this.minor has,
\* r being the one excluded
Skip(ri, r) == IF ri < r THEN ri ELSE ri + 1

\* this.minor(r, c).  zeros throws for a 1 x 1 receiver; with r or c that
\* is no row or column of this nothing is skipped, and setElement throws
\* at the first row or column that the result has not
minor(h, this, r, c) ==
  CASE ~isSquare(this) -> Throw(h, "Minor can only be calculated for square matrices.")
    [] isSquare(this) /\ this.rows = 1 -> zeros(h, this.rows - 1, this.cols - 1)
    [] isSquare(this) /\ this.rows > 1
       /\ (r < 0 \/ r >= this.rows \/ c < 0 \/ c >= this.cols) ->
         Throw(zeros(h, this.rows - 1, this.cols - 1).h, "Index out of bounds.")
    [] OTHER ->
         storeEach(zeros(h, this.rows - 1, this.cols - 1),
                   [x \in 1..((this.rows - 1) * (this.cols - 1)) |->
                      Get(h, this, Skip((x - 1) \div (this.cols - 1), r),
                          Skip((x - 1) % (this.cols - 1), c))])

\* 1e-6, the default epsilon of equals
DefaultEpsilon == Div(FromInt(1), FromInt(1000000))

\* this.equals(other, epsilon): a difference that is NaN is not > epsilon
equals(h, this, other, epsilon) ==
  IF this.rows # other.rows \/ this.cols # other.cols
  THEN Return(h, FALSE)
  ELSE Return(h, \A i \in 0..(Len(h[this.elements]) - 1) :
                    ~Less(epsilon, Abs(Sub(Load(h, this, i), Load(h, other, i)))))

\* this.toArray(): a new array of new arrays of numbers
toArray(h, this) ==
  Return(h, [i \in 1..this.rows |->
               [j \in 1..this.cols |-> Load(h, this, (i - 1) * this.cols + (j - 1))]])

\* this.toFlatArray(): new Float32Array(this.elements), a buffer of its own
toFlatArray(h, this) ==
  Return(Append(h, h[this.elements]),
         [length |-> Len(h[this.elements]), elements |-> Len(h) + 1])

\* a toJSON with rows and cols exchanged
toJSONExchanged(h, this) ==
  Return(h, [rows |-> this.cols, cols |-> this.rows,
             elements |-> [x \in 1..Len(h[this.elements]) |-> Load(h, this, x - 1)]])

\* this.toJSON(): Array.from(this.elements) is a new array of numbers
toJSON(h, this) ==
  Return(h, [rows |-> this.rows, cols |-> this.cols,
             elements |-> [x \in 1..Len(h[this.elements]) |-> Load(h, this, x - 1)]])

\* the values that an argument of fromJSON and its properties may be: a
\* number, an array, an object with rows, cols and elements, or something
\* else (undefined for what is missing, a string)
Num(n) == [t |-> "number", n |-> n]
Arr(data) == [t |-> "array", data |-> data]
Obj(rows, cols, elements) == [t |-> "object", rows |-> rows, cols |-> cols, elements |-> elements]
Other(t) == [t |-> t, n |-> 0, data |-> <<>>]

\* a fromJSON that takes an empty elements array to the constructor
fromJSONAnyLength(h, json) ==
  IF \/ json.t # "object"
     \/ json.elements.t # "array"
     \/ json.rows.t # "number"
     \/ json.cols.t # "number"
  THEN Throw(h, "Invalid JSON format.")
  ELSE New(h, json.rows.n, json.cols.n, Flat(json.elements.data))

\* MatrixN.fromJSON(json)
fromJSON(h, json) ==
  IF \/ json.t # "object"
     \/ json.elements.t # "array"
     \/ Len(json.elements.data) = 0
     \/ json.rows.t # "number"
     \/ json.cols.t # "number"
  THEN Throw(h, "Invalid JSON format.")
  ELSE New(h, json.rows.n, json.cols.n, Flat(json.elements.data))

\* sum += L.getElement(i, k) * U.getElement(k, j), for the k below n
RECURSIVE luSum(_, _, _, _, _, _)
luSum(h, L, U, i, j, n) ==
  IF n = 0 THEN FromInt(0)
  ELSE Add(luSum(h, L, U, i, j, n - 1), Mul(Get(h, L, i, n - 1), Get(h, U, n - 1, j)))

\* a luSet that does not divide by the pivot
luSetUndivided(h, L, U, j, i, d) ==
  IF i <= j THEN Set(h, U, i, j, d) ELSE Set(h, L, i, j, d)

\* U.setElement(i, j, d) in the upper triangular part,
\* L.setElement(i, j, d / U.getElement(j, j)) in the lower one
luSet(h, L, U, j, i, d) ==
  IF i <= j THEN Set(h, U, i, j, d) ELSE Set(h, L, i, j, Div(d, Get(h, U, j, j)))

\* the body of luDecomposition's loops for column j and row i:
\* this.getElement(i, j) - sum, with sum over the k below i or below j
luStep(h, this, L, U, j, i) ==
  luSet(h, L, U, j, i,
        Sub(Get(h, this, i, j), luSum(h, L, U, i, j, IF i <= j THEN i ELSE j)))

\* the inner loop of luDecomposition for column j, from the row st.i on
RECURSIVE luRows(_, _, _, _, _)
luRows(st, this, L, U, j) ==
  IF st.i >= this.rows THEN st.h
  ELSE luRows([h |-> luStep(st.h, this, L, U, j, st.i), i |-> st.i + 1], this, L, U, j)

\* the outer loop of luDecomposition, from the column st.j on
RECURSIVE luLoop(_, _, _, _)
luLoop(st, this, L, U) ==
  IF st.j >= this.rows THEN st.h
  ELSE luLoop([h |-> luRows([h |-> st.h, i |-> 0], this, L, U, st.j), j |-> st.j + 1],
              this, L, U)

\* the loops of luDecomposition on L and U, the outcome of MatrixN.zeros(n, n)
luInto(L, U, this) ==
  Return(luLoop([h |-> U.h, j |-> 0], this, L, U.v), [L |-> L, U |-> U.v])

\* luDecomposition after L, the outcome of MatrixN.identity(n)
luFrom(L, this) == luInto(L.v, zeros(L.h, this.rows, this.rows), this)

\* this.luDecomposition()
luDecomposition(h, this) == luFrom(identity(h, this.rows), this)

\* det *= U.getElement(i, i), for the i below n
RECURSIVE diagonalProduct(_, _, _)
diagonalProduct(h, U, n) ==
  IF n = 0 THEN FromInt(1)
  ELSE Mul(diagonalProduct(h, U, n - 1), Get(h, U, n - 1, n - 1))

\* m[a] * m[d] - m[b] * m[c]
Cross(m, a, d, b, c) == Sub(Mul(m[a], m[d]), Mul(m[b], m[c]))

\* the n = 2 formula with the second product added: m[0] * m[3] + m[1] * m[2]
determinant2Sum(m) == Add(Mul(m[0], m[3]), Mul(m[1], m[2]))

\* n = 2
determinant2(m) == Cross(m, 0, 3, 1, 2)

\* n = 3: expansion along the first row
determinant3(m) ==
  Add(Sub(Mul(m[0], Cross(m, 4, 8, 5, 7)), Mul(m[1], Cross(m, 3, 8, 5, 6))),
      Mul(m[2], Cross(m, 3, 7, 4, 6)))

\* For larger matrices, use LU decomposition: on lu, its outcome
determinantLU(lu, n) == Return(lu.h, diagonalProduct(lu.h, lu.v.U, n))

\* this.determinant()
determinant(h, this) ==
  CASE ~isSquare(this) ->
         Throw(h, "Determinant can only be calculated for square matrices.")
    [] isSquare(this) /\ this.rows = 1 -> Return(h, Load(h, this, 0))
    [] isSquare(this) /\ this.rows = 2 -> Return(h, determinant2(Elements(h, this)))
    [] isSquare(this) /\ this.rows = 3 -> Return(h, determinant3(Elements(h, this)))
    [] OTHER -> determinantLU(luDecomposition(h, this), this.rows)

(* The determinant of the earlier variant of the class (script.js): the same *)
(* formulas up to n = 3, and above it the cofactor expansion along row 0.    *)
RECURSIVE determinantCofactor(_, _)

\* a cofactor sum that takes every column with the sign +
cofactorAddUnsigned(prev, this, j, d) ==
  [h |-> d.h, det |-> Add(prev.det, Mul(Mul(FromInt(1), Get(prev.h, this, 0, j)), d.v))]

\* det += (j % 2 === 1 ? -1 : 1) * this.getElement(0, j) * d, with d the
\* outcome of this.minor(0, j).determinant()
cofactorAdd(prev, this, j, d) ==
  [h |-> d.h,
   det |-> Add(prev.det,
               Mul(Mul(FromInt(IF j % 2 = 1 THEN -1 ELSE 1), Get(prev.h, this, 0, j)), d.v))]

\* .determinant() of m, the outcome of this.minor(0, j)
minorDeterminant(m) == determinantCofactor(m.h, m.v)

\* the loop body for the column j
cofactorStep(prev, this, j) ==
  cofactorAdd(prev, this, j, minorDeterminant(minor(prev.h, this, 0, j)))

\* for (let j = 0; j < n; j++), from let det = 0
RECURSIVE cofactorLoop(_, _, _)
cofactorLoop(e, this, n) ==
  IF n = 0 THEN e ELSE cofactorStep(cofactorLoop(e, this, n - 1), this, n - 1)

\* return det, from the state the loop ended in
cofactorReturn(e) == Return(e.h, e.det)

\* this.determinant() of script.js
determinantCofactor(h, this) ==
  CASE ~isSquare(this) ->
         Throw(h, "Determinant can only be calculated for square matrices.")
    [] isSquare(this) /\ this.rows = 1 -> Return(h, Load(h, this, 0))
    [] isSquare(this) /\ this.rows = 2 -> Return(h, determinant2(Elements(h, this)))
    [] isSquare(this) /\ this.rows = 3 -> Return(h, determinant3(Elements(h, this)))
    [] OTHER -> cofactorReturn(cofactorLoop([h |-> h, det |-> FromInt(0)], this, this.rows))

\* 1e-10 and 1e-12, the binary64 values nearest to them
SingularEpsilon == Div(FromInt(1), Mul(FromInt(100000), FromInt(100000)))
PivotEpsilon == Div(FromInt(1), Mul(FromInt(1000000), FromInt(1000000)))

\* sum = inv.getElement(i, col), then sum -= M.getElement(i, k) * inv.getElement(k, col)
\* for the k from k0 up to and below n
RECURSIVE substituteSum(_, _, _, _, _, _, _)
substituteSum(h, M, inv, i, col, k0, n) ==
  IF n <= k0 THEN Get(h, inv, i, col)
  ELSE Sub(substituteSum(h, M, inv, i, col, k0, n - 1),
           Mul(Get(h, M, i, n - 1), Get(h, inv, n - 1, col)))

\* one row of a substitution with the factor M (L forward, U backward):
\* inv.setElement(i, col, sum / M.getElement(i, i))
substitute(h, M, inv, col, i, k0, n) ==
  Set(h, inv, i, col, Div(substituteSum(h, M, inv, i, col, k0, n), Get(h, M, i, i)))

\* the two loops over the rows for a column: st.i counts the passes. The
\* first n solve L * y = e (where e is a unit vector) for y, at the rows
\* 0 to n - 1; the next n solve U * x = y for x, at the rows n - 1 down to 0
RECURSIVE substituteLoop(_, _, _, _, _)
substituteLoop(st, L, U, inv, col) ==
  CASE st.i < inv.rows ->
         substituteLoop([h |-> substitute(st.h, L, inv, col, st.i, 0, st.i),
                         i |-> st.i + 1], L, U, inv, col)
    [] st.i >= inv.rows /\ st.i < 2 * inv.rows ->
         substituteLoop([h |-> substitute(st.h, U, inv, col, 2 * inv.rows - 1 - st.i,
                                          2 * inv.rows - st.i, inv.rows),
                         i |-> st.i + 1], L, U, inv, col)
    [] OTHER -> st.h

\* the loop over the columns of the inverse, from the column st.col on
RECURSIVE invertLoop(_, _, _, _)
invertLoop(st, L, U, inv) ==
  IF st.col >= inv.rows THEN st.h
  ELSE invertLoop([h   |-> substituteLoop([h |-> st.h, i |-> 0], L, U, inv, st.col),
                   col |-> st.col + 1],
                  L, U, inv)

\* the loops of the inversion on inv, the outcome of MatrixN.identity(n)
invertInto(lu, inv) ==
  Return(invertLoop([h |-> inv.h, col |-> 0], lu.L, lu.U, inv.v), inv.v)

\* Inversion by LU for n > 3: on lu, the outcome of this.luDecomposition()
invertLU(lu, n) == invertInto(lu.v, identity(lu.h, n))

\* the offsets a, d, b, c of the products m[a] * m[d] - m[b] * m[c] that
\* the elements 0 to 8 of the inverse of a 3 x 3 matrix are made of
Adjugate3 ==
  << <<4, 8, 5, 7>>, <<2, 7, 1, 8>>, <<1, 5, 2, 4>>,
     <<5, 6, 3, 8>>, <<0, 8, 2, 6>>, <<2, 3, 0, 5>>,
     <<3, 7, 4, 6>>, <<1, 6, 0, 7>>, <<0, 4, 1, 3>> >>

\* the elements of the inverse for n = 2 and n = 3, before they are stored
adjugate(n, m, invDet) ==
  IF n = 2
  THEN [x \in 1..4 |->
          Mul(CASE x = 1 -> m[3] [] x = 2 -> Neg(m[1]) [] x = 3 -> Neg(m[2]) [] x = 4 -> m[0],
              invDet)]
  ELSE [x \in 1..9 |->
          Mul(Cross(m, Adjugate3[x][1], Adjugate3[x][2], Adjugate3[x][3], Adjugate3[x][4]),
              invDet)]

\* result.elements[x - 1] = values[x], for every x; result is the outcome
\* of new MatrixN(n, n)
storeAll(result, n, values) ==
  Return([result.h EXCEPT ![result.v.elements] =
            SubSeq([x \in 1..(n * n) |-> Fround(values[x])], 1, n * n)],
         result.v)

\* invert for n <= 3 and a determinant that passed the test
invertBy(h, n, m, invDet) ==
  IF n = 1 THEN New(h, 1, 1, Flat(<<Mul(invDet, m[0])>>))
  ELSE storeAll(New(h, n, n, NoData), n, adjugate(n, m, invDet))

\* invert for n <= 3, with det the value of this.determinant()
invertSmall(h, this, det) ==
  IF Less(Abs(det), SingularEpsilon)
  THEN Throw(h, "Matrix is singular and cannot be inverted (determinant is zero).")
  ELSE invertBy(h, this.rows, Elements(h, this), Div(FromInt(1), det))

\* this.invert()
invert(h, this) ==
  CASE ~isSquare(this) -> Throw(h, "Only square matrices can be inverted.")
    [] isSquare(this) /\ this.rows <= 3 -> invertSmall(h, this, determinant(h, this).v)
    [] OTHER -> invertLU(luDecomposition(h, this), this.rows)

(***************************************************************************)
(* rank().  Its loop is kept as a state st = [h, copy, row, col, rank]     *)
(* and one step per column.                                                *)
(***************************************************************************)
\* a comparison that keeps the pivot it has
betterPivotKept(h, copy, col, pivot, r) == pivot

\* if |copy[r][col]| > |copy[pivot][col]| then pivot = r
betterPivot(h, copy, col, pivot, r) ==
  IF Less(Abs(Get(h, copy, pivot, col)), Abs(Get(h, copy, r, col))) THEN r ELSE pivot

\* Partial pivot: the pivot row after the rows row + 1 .. r - 1 were compared
RECURSIVE findPivot(_, _, _, _, _)
findPivot(h, copy, col, row, r) ==
  IF r <= row + 1 THEN row
  ELSE betterPivot(h, copy, col, findPivot(h, copy, col, row, r - 1), r - 1)

\* Swap pivot row: the loop, from the column e.c on
RECURSIVE swapRows(_, _, _, _)
swapRows(e, copy, row, pivot) ==
  IF e.c >= copy.cols THEN e.h
  ELSE swapRows([h |-> Set(Set(e.h, copy, row, e.c, Get(e.h, copy, pivot, e.c)),
                           copy, pivot, e.c, Get(e.h, copy, row, e.c)),
                 c |-> e.c + 1],
                copy, row, pivot)

\* Normalize pivot row: the loop, from the column e.c on
RECURSIVE normalize(_, _, _, _)
normalize(e, copy, row, pivotVal) ==
  IF e.c >= copy.cols THEN e.h
  ELSE normalize([h |-> Set(e.h, copy, row, e.c, Div(Get(e.h, copy, row, e.c), pivotVal)),
                  c |-> e.c + 1],
                 copy, row, pivotVal)

\* Eliminate below: the inner loop for the row r, from the column e.c on
RECURSIVE eliminateRow(_, _, _, _, _)
eliminateRow(e, copy, row, r, factor) ==
  IF e.c >= copy.cols THEN e.h
  ELSE eliminateRow([h |-> Set(e.h, copy, r, e.c,
                                Sub(Get(e.h, copy, r, e.c),
                                    Mul(factor, Get(e.h, copy, row, e.c)))),
                     c |-> e.c + 1],
                    copy, row, r, factor)

\* Eliminate below: the outer loop, from the row e.r on
RECURSIVE eliminate(_, _, _, _)
eliminate(e, copy, row, col) ==
  IF e.r >= copy.rows THEN e.h
  ELSE eliminate([h |-> eliminateRow([h |-> e.h, c |-> col], copy, row, e.r,
                                     Get(e.h, copy, e.r, col)),
                  r |-> e.r + 1],
                 copy, row, col)

\* the state before the loop, copy being the outcome of this.clone()
rankStart(copy) == [h |-> copy.h, copy |-> copy.v, row |-> 0, col |-> 0, rank |-> 0]

\* col < cols && row < rows
rankContinues(st) == st.col < st.copy.cols /\ st.row < st.copy.rows

\* Normalize pivot row and eliminate below, on the heap h1 that the swap
\* left; then row++, rank++ and col++
rankReduce(st, h1) ==
  [st EXCEPT !.h = eliminate([h |-> normalize([h |-> h1, c |-> st.col], st.copy, st.row,
                                              Get(h1, st.copy, st.row, st.col)),
                              r |-> st.row + 1],
                             st.copy, st.row, st.col),
             !.row = st.row + 1, !.rank = st.rank + 1, !.col = st.col + 1]

\* a loop body that stays on a column whose pivot is nearly zero
rankPivotStaying(st, pivot) ==
  IF Less(Abs(Get(st.h, st.copy, pivot, st.col)), PivotEpsilon)
  THEN st
  ELSE rankReduce(st, IF pivot # st.row
                      THEN swapRows([h |-> st.h, c |-> 0], st.copy, st.row, pivot)
                      ELSE st.h)

\* the loop body once the pivot row is found: if pivot is nearly zero, move
\* on to next column (col++), else swap pivot row if needed and reduce
rankPivot(st, pivot) ==
  IF Less(Abs(Get(st.h, st.copy, pivot, st.col)), PivotEpsilon)
  THEN [st EXCEPT !.col = st.col + 1]
  ELSE rankReduce(st, IF pivot # st.row
                      THEN swapRows([h |-> st.h, c |-> 0], st.copy, st.row, pivot)
                      ELSE st.h)

\* one pass through the loop body, and col++
rankStep(st) == rankPivot(st, findPivot(st.h, st.copy, st.col, st.row, st.copy.rows))

RECURSIVE rankLoop(_)
rankLoop(st) == IF rankContinues(st) THEN rankLoop(rankStep(st)) ELSE st

\* return rank, from the state the loop ended in
rankReturn(st) == Return(st.h, st.rank)

\* this.rank()
rank(h, this) == rankReturn(rankLoop(rankStart(clone(h, this))))

(***************************************************************************)
(* The program: a matrix is built, then its methods are called.  src says  *)
(* how the receiver was built, with the integers it was filled with.       *)
(***************************************************************************)
MaxVal == 3
MaxN == 4
RowOpRows == 2

\* the test matrices of the README
Readme ==
  { [rows |-> 2, cols |-> 2, data |-> <<1, 2, 2, 4>>],
    [rows |-> 2, cols |-> 2, data |-> <<4, 7, 2, 6>>],
    [rows |-> 2, cols |-> 3, data |-> <<1, 2, 3, 4, 5, 6>>],
    [rows |-> 3, cols |-> 3, data |-> <<1, 2, 3, 0, 1, 4, 5, 6, 0>>],
    [rows |-> 3, cols |-> 3, data |-> <<1, 2, 3, 4, 5, 6, 7, 8, 9>>],
    [rows |-> 3, cols |-> 3, data |-> <<1, 0, 0, 0, 2, 0, 0, 0, 3>>],
    [rows |-> 4, cols |-> 4, data |-> <<3, 2, 0, 1, 4, 0, 1, 2, 3, 0, 2, 1, 9, 2, 3, 1>>],
    [rows |-> 4, cols |-> 4, data |-> <<2, 0, 0, 0, 0, 4, 0, 0, 0, 0, 1, 1, 0, 0, 0, 1>>] }

\* new MatrixN(rows, cols, data) of a README matrix, as it is or with one
\* element replaced by 0
ReadmeSeeds ==
  UNION { {[f |-> "MatrixN", rows |-> m.rows, cols |-> m.cols, data |-> m.data]}
          \cup {[f |-> "MatrixN", rows |-> m.rows, cols |-> m.cols,
                 data |-> [m.data EXCEPT ![i] = 0]] : i \in 1..Len(m.data)}
          : m \in Readme }

\* new MatrixN(rows, cols, data) for the shapes up to 2 x 2 and every data
\* in 0..MaxVal
SmallSeeds ==
  UNION { {[f |-> "MatrixN", rows |-> s[1], cols |-> s[2], data |-> d]
             : d \in [1..(s[1] * s[2]) -> 0..MaxVal]}
          : s \in {<<1, 1>>, <<1, 2>>, <<2, 1>>, <<2, 2>>} }

\* MatrixN.identity(n) and MatrixN.zeros(n, n)
FactorySeeds ==
  {[f |-> "identity", rows |-> n, cols |-> n,
    data |-> [i \in 1..(n * n) |-> IF (i - 1) \div n = (i - 1) % n THEN 1 ELSE 0]]
     : n \in 1..MaxN}
  \cup {[f |-> "zeros", rows |-> n, cols |-> n, data |-> [i \in 1..(n * n) |-> 0]]
          : n \in 1..MaxN}

Seeds == ReadmeSeeds \cup SmallSeeds \cup FactorySeeds

\* the call that builds the matrix of a seed, on the empty heap
Build(s) ==
  CASE s.f = "identity" -> identity(<<>>, s.rows)
    [] s.f = "zeros"    -> zeros(<<>>, s.rows, s.cols)
    [] s.f = "MatrixN"  ->
         New(<<>>, s.rows, s.cols, Flat([i \in 1..Len(s.data) |-> FromInt(s.data[i])]))

\* row r of this multiplied by k, with getElement and setElement, from the
\* column e.c on
RECURSIVE scaleRow(_, _, _, _)
scaleRow(e, this, r, k) ==
  IF e.c >= this.cols THEN e.h
  ELSE scaleRow([h |-> Set(e.h, this, r, e.c, Mul(k, Get(e.h, this, r, e.c))),
                 c |-> e.c + 1],
                this, r, k)

\* k times row r2 of this added to its row r1, from the column e.c on
RECURSIVE addRow(_, _, _, _, _)
addRow(e, this, r1, r2, k) ==
  IF e.c >= this.cols THEN e.h
  ELSE addRow([h |-> Set(e.h, this, r1, e.c,
                         Add(Get(e.h, this, r1, e.c), Mul(k, Get(e.h, this, r2, e.c)))),
               c |-> e.c + 1],
              this, r1, r2, k)

\* the arguments of a call: the other operand (an object, with the integers
\* it was filled with), the indices, the value or the values passed, and for
\* a later mutation its target, its kind and how many there were
NoArg ==
  [other |-> Undefined, data |-> <<>>, row |-> 0, col |-> 0, value |-> Undefined,
   values |-> <<>>, target |-> "", kind |-> "", n |-> 0, op |-> ""]

VARIABLES heap, self, src, call, arg, ret, rank0

vars == <<heap, self, src, call, arg, ret, rank0>>

Init ==
  \E s \in Seeds :
     /\ \E b \in {Build(s)} : heap = b.h /\ self = b.v
     /\ src = s
     /\ call = "new"
     /\ arg = NoArg
     /\ ret = [err |-> "", v |-> Undefined]
     /\ rank0 = -1

\* self.determinant()
Determinant ==
  /\ call = "new"
  /\ \E r \in {determinant(heap, self)} : heap' = r.h /\ ret' = [err |-> r.err, v |-> r.v]
  /\ call' = "determinant"
  /\ UNCHANGED <<self, src, arg, rank0>>

\* self.invert()
Invert ==
  /\ call = "new"
  /\ \E r \in {invert(heap, self)} : heap' = r.h /\ ret' = [err |-> r.err, v |-> r.v]
  /\ call' = "invert"
  /\ UNCHANGED <<self, src, arg, rank0>>

\* self.multiply(mInv), with mInv the matrix that invert() returned
Multiply ==
  /\ call = "invert" /\ ret.err = ""
  /\ \E r \in {multiply(heap, self, ret.v)} : heap' = r.h /\ ret' = [err |-> r.err, v |-> r.v]
  /\ call' = "multiply"
  /\ UNCHANGED <<self, src, arg, rank0>>

\* self.rank(), on the matrix as built or after a row operation
Rank ==
  /\ call \in {"new", "rowop"}
  /\ \E r \in {rank(heap, self)} : heap' = r.h /\ ret' = [err |-> r.err, v |-> r.v]
  /\ call' = "rank"
  /\ UNCHANGED <<self, src, arg, rank0>>

\* after a first rank(): a row of self multiplied by a scalar that is not 0
RowScale ==
  /\ call = "rank" /\ rank0 = -1 /\ self.rows <= RowOpRows
  /\ \E r \in 0..(self.rows - 1), k \in {-1, 2} :
        heap' = scaleRow([h |-> heap, c |-> 0], self, r, FromInt(k))
  /\ rank0' = ret.v
  /\ call' = "rowop"
  /\ ret' = [err |-> "", v |-> Undefined]
  /\ UNCHANGED <<self, src, arg>>

\* after a first rank(): a multiple of a row of self added to another row
RowAdd ==
  /\ call = "rank" /\ rank0 = -1 /\ self.rows <= RowOpRows
  /\ \E r1 \in 0..(self.rows - 1), r2 \in 0..(self.rows - 1), k \in {-1, 1} :
        /\ r1 # r2
        /\ heap' = addRow([h |-> heap, c |-> 0], self, r1, r2, FromInt(k))
  /\ rank0' = ret.v
  /\ call' = "rowop"
  /\ ret' = [err |-> "", v |-> Undefined]
  /\ UNCHANGED <<self, src, arg>>

\* self.luDecomposition(), which determinant and invert call on a matrix
\* that is square
LuDecomposition ==
  /\ call = "new" /\ isSquare(self)
  /\ \E r \in {luDecomposition(heap, self)} : heap' = r.h /\ ret' = [err |-> r.err, v |-> r.v]
  /\ call' = "luDecomposition"
  /\ UNCHANGED <<self, src, arg, rank0>>

\* self.rank() entered: const copy = this.clone(), rank = 0, row = 0 and
\* col = 0; ret holds the variables of the loop
RankBegin ==
  /\ call = "new"
  /\ \E st \in {rankStart(clone(heap, self))} : heap' = st.h /\ ret' = [err |-> "", v |-> st]
  /\ call' = "rank loop"
  /\ UNCHANGED <<self, src, arg, rank0>>

\* one pass through the loop of rank(), while col < cols && row < rows
RankPass ==
  /\ call = "rank loop" /\ rankContinues(ret.v)
  /\ \E st \in {rankStep(ret.v)} : heap' = st.h /\ ret' = [err |-> "", v |-> st]
  /\ UNCHANGED <<self, src, call, arg, rank0>>

\* the loop of rank() left: return rank, the variable rank of ret
RankEnd ==
  /\ call = "rank loop" /\ ~rankContinues(ret.v)
  /\ call' = "rank end"
  /\ UNCHANGED <<heap, self, src, arg, ret, rank0>>

\* self.determinant() of the earlier variant of the class
DeterminantCofactor ==
  /\ call = "new"
  /\ \E r \in {determinantCofactor(heap, self)} :
        heap' = r.h /\ ret' = [err |-> r.err, v |-> r.v]
  /\ call' = "determinant cofactor"
  /\ UNCHANGED <<self, src, arg, rank0>>

Next ==
  \/ Determinant \/ Invert \/ Multiply \/ Rank \/ RowScale \/ RowAdd
  \/ LuDecomposition \/ DeterminantCofactor

Spec == Init /\ [][Next]_vars

\* rank() on the matrix as built, one pass of its loop at a time
RankNext == RankBegin \/ RankPass \/ RankEnd

RankRuns == Init /\ [][RankNext]_vars

(***************************************************************************)
(* The store and the elementary algebra: a matrix is constructed from      *)
(* arguments that may be wrong, another operand may be constructed, then   *)
(* one method is called, and objects may be mutated afterwards.  src holds *)
(* the arguments of the constructor (seed) and the integers meant (data).  *)
(***************************************************************************)
MaxDim == 2
MaxMutations == 1

\* an integer whose successor no single-precision number is
Big == 2^24

\* the integers of a matrix of n elements: 1, 2, 3, ... or 5, 6, 7, ... or
\* Big, 1, 0, -1, ...
Content(p, n) ==
  SubSeq([x \in 1..n |-> CASE p = "count" -> x
                           [] p = "after" -> x + 4
                           [] p = "big" -> IF x = 1 THEN Big ELSE 3 - x],
         1, n)

\* the numbers of a flat array, and the arrays of a 2D array, for the integers D
Numbers(D) == SubSeq([x \in 1..Len(D) |-> FromInt(D[x])], 1, Len(D))
RowsOf(D, rows, cols) ==
  SubSeq([i \in 1..rows |-> SubSeq([j \in 1..cols |-> FromInt(D[(i - 1) * cols + j])], 1, cols)],
         1, rows)

\* the ways of passing initialData: none, right, or wrong in one place (a
\* flat array of another length or with an array as its last item, a 2D
\* array with a row missing, added, shorter, longer, or that is no array)
Forms ==
  {[form |-> f, k |-> 0] :
     f \in {"none", "flat", "short flat", "long flat", "nested", "fewer rows", "more rows"}}
  \cup {[form |-> f, k |-> k] : f \in {"short row", "long row", "no row"}, k \in 1..MaxDim}
  \cup {[form |-> "array item", k |-> 0]}

\* the initialData argument of a form, for the integers D of rows x cols
Argument(f, D, rows, cols) ==
  CASE f.form = "none" -> NoData
    [] f.form = "flat" -> Flat(Numbers(D))
    [] f.form = "short flat" -> Flat(SubSeq(Numbers(D), 1, Len(D) - 1))
    [] f.form = "long flat" -> Flat(Append(Numbers(D), FromInt(0)))
    [] f.form = "nested" -> Nested(RowsOf(D, rows, cols))
    [] f.form = "fewer rows" -> Nested(SubSeq(RowsOf(D, rows, cols), 1, rows - 1))
    [] f.form = "more rows" -> Nested(Append(RowsOf(D, rows, cols), RowsOf(D, rows, cols)[1]))
    [] f.form = "short row" ->
         Nested([RowsOf(D, rows, cols) EXCEPT ![f.k] = SubSeq(@, 1, cols - 1)])
    [] f.form = "long row" ->
         Nested([RowsOf(D, rows, cols) EXCEPT ![f.k] = Append(@, FromInt(0))])
    [] f.form = "array item" ->
         Flat([x \in 1..Len(D) |-> IF x = Len(D) THEN Row(<<FromInt(D[x])>>) ELSE FromInt(D[x])])
    [] f.form = "no row" ->
         [kind |-> "array",
          data |-> [Nested(RowsOf(D, rows, cols)).data EXCEPT ![f.k] = FromInt(D[(f.k - 1) * cols + 1])]]

\* the values passed to setElement, set, multiplyScalar and divideScalar:
\* 0, 2, and 0.1, which is no single-precision number
Scalars == {FromInt(0), FromInt(2), Div(FromInt(1), FromInt(10))}

\* the calls that return an object with a buffer
ObjectCalls ==
  {"clone", "add", "subtract", "multiplyScalar", "divideScalar", "multiply", "transpose",
   "minor", "invert", "toFlatArray"}

\* the call whose outcome ret holds
LastCall == IF call = "mutate" THEN arg.op ELSE call

Start ==
  /\ heap = <<>>
  /\ self = Undefined
  /\ src = [f |-> "", rows |-> 0, cols |-> 0, data |-> <<>>, seed |-> NoData]
  /\ call = "start"
  /\ arg = NoArg
  /\ ret = [err |-> "", v |-> Undefined]
  /\ rank0 = -1

\* new MatrixN(rows, cols, initialData)
Construct ==
  /\ call = "start"
  /\ \E rows \in (-1)..MaxDim, cols \in (-1)..MaxDim, p \in {"count", "big"}, f \in Forms :
        /\ f.k <= rows
        /\ rows <= 0 \/ cols <= 0 => f.form \in {"none", "flat"}
        /\ rows <= 0 \/ cols <= 0 \/ f.form = "none" => p = "count"
        /\ \E D \in {IF rows <= 0 \/ cols <= 0 THEN <<>>
                     ELSE IF f.form = "none" THEN SubSeq([x \in 1..(rows * cols) |-> 0], 1, rows * cols)
                     ELSE Content(p, rows * cols)} :
           \E a \in {Argument(f, D, rows, cols)} :
           \E r \in {New(heap, rows, cols, a)} :
              /\ heap' = r.h
              /\ self' = r.v
              /\ ret' = [err |-> r.err, v |-> r.v]
              /\ call' = IF r.err = "" THEN "new" ELSE "threw"
              /\ src' = [f |-> "MatrixN", rows |-> rows, cols |-> cols, data |-> D, seed |-> a]
  /\ UNCHANGED <<arg, rank0>>

\* new MatrixN(rows, cols, data) of a README matrix, the 3 x 3 and 4 x 4 ones
\* among them
ConstructReadme ==
  /\ call = "start"
  /\ \E m \in Readme :
        \E r \in {New(heap, m.rows, m.cols, Flat(Numbers(m.data)))} :
           /\ heap' = r.h
           /\ self' = r.v
           /\ ret' = [err |-> r.err, v |-> r.v]
           /\ src' = [f |-> "MatrixN", rows |-> m.rows, cols |-> m.cols, data |-> m.data,
                      seed |-> Flat(Numbers(m.data))]
  /\ call' = "new"
  /\ UNCHANGED <<arg, rank0>>

\* new Mat2(initialData), new Mat3(initialData) or new Mat4(initialData)
ConstructFixed ==
  /\ call = "start"
  /\ \E size \in {2, 3, 4}, f \in Forms :
        /\ f.k <= size
        /\ \E D \in {IF f.form = "none" THEN SubSeq([x \in 1..(size * size) |-> 0], 1, size * size)
                     ELSE Content("count", size * size)} :
           \E a \in {Argument(f, D, size, size)} :
           \E r \in {CASE size = 2 -> Mat2(heap, a)
                       [] size = 3 -> Mat3(heap, a)
                       [] size = 4 -> Mat4(heap, a)} :
              /\ heap' = r.h
              /\ self' = r.v
              /\ ret' = [err |-> r.err, v |-> r.v]
              /\ call' = IF r.err = "" THEN "new" ELSE "threw"
              /\ src' = [f |-> CASE size = 2 -> "Mat2" [] size = 3 -> "Mat3" [] size = 4 -> "Mat4",
                         rows |-> size, cols |-> size, data |-> D, seed |-> a]
  /\ UNCHANGED <<arg, rank0>>

\* the other operand of a call: new MatrixN(rows, cols, data),
\* Mat2.fromValues(5, 6, 7, 8), which is new Mat2([5, 6, 7, 8]), or this itself
Operand ==
  /\ call = "new"
  /\ \/ \E rows \in 1..MaxDim, cols \in 1..MaxDim, p \in {"count", "after", "big"} :
          \E r \in {New(heap, rows, cols, Flat(Numbers(Content(p, rows * cols))))} :
             /\ heap' = r.h
             /\ arg' = [NoArg EXCEPT !.other = r.v, !.data = Content(p, rows * cols)]
     \/ \E r \in {Mat2(heap, Flat(Numbers(Content("after", 4))))} :
           /\ heap' = r.h
           /\ arg' = [NoArg EXCEPT !.other = r.v, !.data = Content("after", 4)]
     \/ /\ heap' = heap
        /\ arg' = [NoArg EXCEPT !.other = self, !.data = src.data]
  /\ call' = "operand"
  /\ UNCHANGED <<self, src, ret, rank0>>

\* self.getElement(row, col), on a new matrix or after a setElement
GetElement ==
  /\ call = "new" \/ (call = "setElement" /\ ret.err = "")
  /\ \E row \in (-1)..MaxDim, col \in (-1)..MaxDim :
        /\ arg' = [arg EXCEPT !.row = row, !.col = col]
        /\ \E r \in {getElement(heap, self, row, col)} :
              heap' = r.h /\ ret' = [err |-> r.err, v |-> r.v]
  /\ call' = "getElement"
  /\ UNCHANGED <<self, src, rank0>>

\* self.setElement(row, col, value)
SetElement ==
  /\ call = "new"
  /\ \E row \in (-1)..MaxDim, col \in (-1)..MaxDim, value \in Scalars :
        /\ arg' = [NoArg EXCEPT !.row = row, !.col = col, !.value = value]
        /\ \E r \in {setElement(heap, self, row, col, value)} :
              heap' = r.h /\ ret' = [err |-> r.err, v |-> r.v]
  /\ call' = "setElement"
  /\ UNCHANGED <<self, src, rank0>>

\* self.set(values), with values one too few, as many as the elements, or
\* one too many
SetAll ==
  /\ call = "new"
  /\ \E n \in (self.rows * self.cols - 1)..(self.rows * self.cols + 1), value \in Scalars :
        \E values \in {SubSeq([x \in 1..n |-> IF x = 1 THEN value ELSE FromInt(x)], 1, n)} :
           /\ arg' = [NoArg EXCEPT !.values = values]
           /\ \E r \in {set(heap, self, values)} :
                 heap' = r.h /\ ret' = [err |-> r.err, v |-> r.v]
  /\ call' = "set"
  /\ UNCHANGED <<self, src, rank0>>

\* self.clone()
Clone ==
  /\ call = "new"
  /\ \E r \in {clone(heap, self)} : heap' = r.h /\ ret' = [err |-> r.err, v |-> r.v]
  /\ call' = "clone"
  /\ UNCHANGED <<self, src, arg, rank0>>

\* self.add(other)
AddMatrix ==
  /\ call = "operand"
  /\ \E r \in {add(heap, self, arg.other)} : heap' = r.h /\ ret' = [err |-> r.err, v |-> r.v]
  /\ call' = "add"
  /\ UNCHANGED <<self, src, arg, rank0>>

\* self.addSelf(other)
AddSelf ==
  /\ call = "operand"
  /\ \E r \in {addSelf(heap, self, arg.other)} :
        heap' = r.h /\ ret' = [err |-> r.err, v |-> r.v]
  /\ call' = "addSelf"
  /\ UNCHANGED <<self, src, arg, rank0>>

\* self.subtract(other)
Subtract ==
  /\ call = "operand"
  /\ \E r \in {subtract(heap, self, arg.other)} :
        heap' = r.h /\ ret' = [err |-> r.err, v |-> r.v]
  /\ call' = "subtract"
  /\ UNCHANGED <<self, src, arg, rank0>>

\* self.add(other).subtract(other): subtract called on what add returned
SubtractBack ==
  /\ call = "add" /\ ret.err = ""
  /\ \E r \in {subtract(heap, ret.v, arg.other)} :
        heap' = r.h /\ ret' = [err |-> r.err, v |-> r.v]
  /\ call' = "add.subtract"
  /\ UNCHANGED <<self, src, arg, rank0>>

\* self.multiply(other)
MultiplyBy ==
  /\ call = "operand"
  /\ \E r \in {multiply(heap, self, arg.other)} :
        heap' = r.h /\ ret' = [err |-> r.err, v |-> r.v]
  /\ call' = "multiply"
  /\ UNCHANGED <<self, src, arg, rank0>>

\* self.equals(other)
Equals ==
  /\ call = "operand"
  /\ \E r \in {equals(heap, self, arg.other, DefaultEpsilon)} :
        heap' = r.h /\ ret' = [err |-> r.err, v |-> r.v]
  /\ call' = "equals"
  /\ UNCHANGED <<self, src, arg, rank0>>

\* self.multiplyScalar(scalar)
MultiplyScalar ==
  /\ call = "new"
  /\ \E scalar \in Scalars :
        /\ arg' = [NoArg EXCEPT !.value = scalar]
        /\ \E r \in {multiplyScalar(heap, self, scalar)} :
              heap' = r.h /\ ret' = [err |-> r.err, v |-> r.v]
  /\ call' = "multiplyScalar"
  /\ UNCHANGED <<self, src, rank0>>

\* self.divideScalar(scalar)
DivideScalar ==
  /\ call = "new"
  /\ \E scalar \in Scalars :
        /\ arg' = [NoArg EXCEPT !.value = scalar]
        /\ \E r \in {divideScalar(heap, self, scalar)} :
              heap' = r.h /\ ret' = [err |-> r.err, v |-> r.v]
  /\ call' = "divideScalar"
  /\ UNCHANGED <<self, src, rank0>>

\* self.transpose()
Transpose ==
  /\ call = "new"
  /\ \E r \in {transpose(heap, self)} : heap' = r.h /\ ret' = [err |-> r.err, v |-> r.v]
  /\ call' = "transpose"
  /\ UNCHANGED <<self, src, arg, rank0>>

\* self.transpose().transpose(): transpose called on what transpose returned
TransposeBack ==
  /\ call = "transpose"
  /\ \E r \in {transpose(heap, ret.v)} : heap' = r.h /\ ret' = [err |-> r.err, v |-> r.v]
  /\ call' = "transpose.transpose"
  /\ UNCHANGED <<self, src, arg, rank0>>

\* self.minor(row, col)
Minor ==
  /\ call = "new"
  /\ \E row \in 0..MaxDim, col \in 0..MaxDim :
        /\ arg' = [NoArg EXCEPT !.row = row, !.col = col]
        /\ \E r \in {minor(heap, self, row, col)} :
              heap' = r.h /\ ret' = [err |-> r.err, v |-> r.v]
  /\ call' = "minor"
  /\ UNCHANGED <<self, src, rank0>>

\* self.toArray()
ToArray ==
  /\ call = "new"
  /\ \E r \in {toArray(heap, self)} : heap' = r.h /\ ret' = [err |-> r.err, v |-> r.v]
  /\ call' = "toArray"
  /\ UNCHANGED <<self, src, arg, rank0>>

\* self.toFlatArray()
ToFlatArray ==
  /\ call = "new"
  /\ \E r \in {toFlatArray(heap, self)} : heap' = r.h /\ ret' = [err |-> r.err, v |-> r.v]
  /\ call' = "toFlatArray"
  /\ UNCHANGED <<self, src, arg, rank0>>

\* self.toJSON()
ToJSON ==
  /\ call = "new"
  /\ \E r \in {toJSON(heap, self)} : heap' = r.h /\ ret' = [err |-> r.err, v |-> r.v]
  /\ call' = "toJSON"
  /\ UNCHANGED <<self, src, arg, rank0>>

\* the arguments of fromJSON: an object as toJSON returns it, for the
\* integers D of rows x cols, or one that is wrong in one place
JsonForms ==
  {"object", "missing", "no elements", "elements no array", "no element", "rows no number",
   "cols no number", "element missing", "element added", "no row"}

Json(form, D, rows, cols) ==
  CASE form = "object" -> Obj(Num(rows), Num(cols), Arr(Numbers(D)))
    [] form = "missing" -> Other("undefined")
    [] form = "no elements" -> Obj(Num(rows), Num(cols), Other("undefined"))
    [] form = "elements no array" -> Obj(Num(rows), Num(cols), Other("string"))
    [] form = "no element" -> Obj(Num(rows), Num(cols), Arr(<<>>))
    [] form = "rows no number" -> Obj(Other("string"), Num(cols), Arr(Numbers(D)))
    [] form = "cols no number" -> Obj(Num(rows), Other("string"), Arr(Numbers(D)))
    [] form = "element missing" ->
         Obj(Num(rows), Num(cols), Arr(SubSeq(Numbers(D), 1, Len(D) - 1)))
    [] form = "element added" ->
         Obj(Num(rows), Num(cols), Arr(Append(Numbers(D), FromInt(0))))
    [] form = "no row" -> Obj(Num(0), Num(cols), Arr(Numbers(D)))

\* MatrixN.fromJSON(json)
FromJSON ==
  /\ call = "start"
  /\ \E rows \in 1..MaxDim, cols \in 1..MaxDim, p \in {"count", "big"}, form \in JsonForms :
        \E json \in {Json(form, Content(p, rows * cols), rows, cols)} :
        \E r \in {fromJSON(heap, json)} :
           /\ heap' = r.h
           /\ self' = r.v
           /\ ret' = [err |-> r.err, v |-> r.v]
           /\ arg' = [NoArg EXCEPT !.value = json]
           /\ src' = [f |-> "fromJSON", rows |-> rows, cols |-> cols,
                      data |-> Content(p, rows * cols), seed |-> NoData]
  /\ call' = "fromJSON"
  /\ UNCHANGED rank0

\* MatrixN.fromJSON(self.toJSON()): fromJSON called on what toJSON returned
FromJSONBack ==
  /\ call = "toJSON"
  /\ \E json \in {Obj(Num(ret.v.rows), Num(ret.v.cols), Arr(ret.v.elements))} :
     \E r \in {fromJSON(heap, json)} :
        /\ heap' = r.h
        /\ ret' = [err |-> r.err, v |-> r.v]
        /\ arg' = [NoArg EXCEPT !.value = json]
  /\ call' = "toJSON.fromJSON"
  /\ UNCHANGED <<self, src, rank0>>

\* the objects that exist besides the receiver: the other operand and the
\* object that the last call returned
Targets ==
  {"receiver"}
  \cup (IF arg.other # Undefined THEN {"operand"} ELSE {})
  \cup (IF LastCall \in ObjectCalls /\ ret.err = "" THEN {"result"} ELSE {})

Target(t) ==
  CASE t = "receiver" -> self
    [] t = "operand" -> arg.other
    [] t = "result" -> ret.v

\* a mutation of the object T: T.setElement(0, 0, 7) (T[0] = 7 for a
\* Float32Array), T.set([9, 9, ...]) or T.addSelf(T)
Mutation(h, T, kind) ==
  CASE kind = "setElement" /\ "rows" \in DOMAIN T -> setElement(h, T, 0, 0, FromInt(7)).h
    [] kind = "setElement" /\ "rows" \notin DOMAIN T -> Store(h, T, 0, FromInt(7))
    [] kind = "set" ->
         set(h, T, SubSeq([x \in 1..Len(h[T.elements]) |-> FromInt(9)], 1, Len(h[T.elements]))).h
    [] kind = "addSelf" -> addSelf(h, T, T).h

\* after a call that returned: one of the objects is mutated
Mutate ==
  /\ LastCall \in ObjectCalls \cup {"addSelf", "equals", "determinant", "rank", "toArray", "toJSON"}
  /\ ret.err = ""
  /\ arg.n < MaxMutations
  /\ \E t \in Targets, kind \in {"setElement", "set", "addSelf"} :
        /\ "rows" \in DOMAIN Target(t) \/ kind = "setElement"
        /\ heap' = Mutation(heap, Target(t), kind)
        /\ arg' = [arg EXCEPT !.target = t, !.kind = kind, !.n = @ + 1, !.op = LastCall]
  /\ call' = "mutate"
  /\ UNCHANGED <<self, src, ret, rank0>>

Step ==
  \/ Construct \/ ConstructReadme \/ ConstructFixed \/ Operand \/ GetElement \/ SetElement \/ SetAll \/ Clone
  \/ AddMatrix \/ AddSelf \/ Subtract \/ SubtractBack \/ MultiplyBy \/ Equals
  \/ MultiplyScalar \/ DivideScalar \/ Transpose \/ TransposeBack \/ Minor
  \/ Determinant \/ Invert \/ Rank
  \/ ToArray \/ ToFlatArray \/ ToJSON \/ FromJSON \/ FromJSONBack \/ Mutate

Algebra == Start /\ [][Step]_vars

(***************************************************************************)
(* What the results are measured against: the integers the matrix was       *)
(* filled with (src.data), in exact integer arithmetic.                    *)
(***************************************************************************)
\* the element (i, j), from 1, of the integer matrix of a seed
Entry(s, i, j) == s.data[(i - 1) * s.cols + j]

\* the sequence C without its element j
Remove(C, j) == SubSeq(C, 1, j - 1) \o SubSeq(C, j + 1, Len(C))

\* the elements of a set of integers, in increasing order
Ordered(S) ==
  SubSeq([i \in 1..Cardinality(S) |->
            CHOOSE x \in S : Cardinality({y \in S : y < x}) = i - 1],
         1, Cardinality(S))

\* the determinant of the rows R and the columns C (sequences of the same
\* length) of the matrix of a seed, by cofactor expansion along the first
\* row; ExpandFrom sums the terms of the columns C[1] .. C[j]
RECURSIVE ExactMinor(_, _, _)
RECURSIVE ExpandFrom(_, _, _, _)
ExpandFrom(s, R, C, j) ==
  IF j = 0 THEN 0
  ELSE ExpandFrom(s, R, C, j - 1)
       + (IF j % 2 = 1 THEN 1 ELSE -1) * Entry(s, R[1], C[j])
         * ExactMinor(s, Tail(R), Remove(C, j))

ExactMinor(s, R, C) == IF R = <<>> THEN 1 ELSE ExpandFrom(s, R, C, Len(C))

\* the determinant of the square matrix of a seed
ExactDet(s) == ExactMinor(s, Ordered(1..s.rows), Ordered(1..s.cols))

\* the rank of the matrix of a seed: the greatest size of a minor that is
\* not zero, which is the number of its linearly independent rows
ExactRank(s) ==
  Greatest({0} \cup
           {Cardinality(R) : R \in {Q \in SUBSET (1..s.rows) :
              \E C \in SUBSET (1..s.cols) :
                 /\ Cardinality(C) = Cardinality(Q)
                 /\ ExactMinor(s, Ordered(Q), Ordered(C)) # 0}})

\* 1e-5, the tolerance of the comparisons
Tolerance == Div(FromInt(1), FromInt(100000))

\* |x - y| <= 1e-5
Within(x, y) == ~IsNaN(Sub(x, y)) /\ ~Less(Tolerance, Abs(Sub(x, y)))

\* M is the identity matrix, within the tolerance
NearIdentity(h, M) ==
  /\ isSquare(M)
  /\ \A i \in 0..(M.rows - 1), j \in 0..(M.cols - 1) :
        Within(Get(h, M, i, j), FromInt(IF i = j THEN 1 ELSE 0))

(***************************************************************************)
(* The properties.                                                         *)
(***************************************************************************)
\* C1: invert() fails on every square matrix that cannot be inverted, for
\* every size n: with "Only square matrices can be inverted." when
\* rows # cols, and with the singular-matrix error whenever
\* |this.determinant()| < 1e-10, never returning a matrix then.
C1_InvertFailsWhenSingular ==
  call = "invert" =>
    /\ ~isSquare(self) => ret.err = "Only square matrices can be inverted."
    /\ isSquare(self) /\ Less(Abs(determinant(heap, self).v), SingularEpsilon) =>
         ret.err = "Matrix is singular and cannot be inverted (determinant is zero)."

\* C2: for every non-singular square matrix A with n <= 3,
\* A.multiply(A.invert()) is the n x n identity within 1e-5.
C2_InverseTimesMatrixSmall ==
  call = "multiply" /\ self.rows <= 3 => ret.err = "" /\ NearIdentity(heap, ret.v)

\* C2 holds for n = 2 and n = 3: only the 1 x 1 case of C3 breaks it.
C2_InverseTimesMatrix2And3 ==
  call = "multiply" /\ self.rows \in {2, 3} => ret.err = "" /\ NearIdentity(heap, ret.v)

\* C3: invert() of a non-singular 1 x 1 matrix [a] returns the 1 x 1
\* matrix [1/a] (within 1e-5).
C3_InverseOfOneByOne ==
  call = "invert" /\ self.rows = 1 /\ self.cols = 1 /\ ret.err = "" =>
    /\ ret.v.rows = 1 /\ ret.v.cols = 1
    /\ Within(Load(heap, ret.v, 0), Div(FromInt(1), Load(heap, self, 0)))

\* C4: for every non-singular square matrix A with n >= 4, invert() returns
\* a matrix X such that A.multiply(X) is the n x n identity within 1e-5.
C4_InverseTimesMatrixLarge ==
  call = "multiply" /\ self.rows >= 4 /\ ExactDet(src) # 0 =>
    ret.err = "" /\ NearIdentity(heap, ret.v)

\* C5: for every square matrix with n >= 4, determinant() equals the
\* determinant by cofactor expansion along the first row (within 1e-5).
C5_DeterminantLarge ==
  call = "determinant" /\ isSquare(self) /\ self.rows >= 4 =>
    ret.err = "" /\ Within(ret.v, FromInt(ExactDet(src)))

\* C6: determinant() fails with "Determinant can only be calculated for
\* square matrices." when rows # cols; for n = 1 it returns the single
\* element, for n = 2 a*d - b*c, for n = 3 the expansion along the first row
\* m0*(m4*m8 - m5*m7) - m1*(m3*m8 - m5*m6) + m2*(m3*m7 - m4*m6): on the
\* integer matrices of the seeds, the very integer that these formulas give.
C6_DeterminantSmall ==
  call = "determinant" =>
    /\ ~isSquare(self) =>
         ret.err = "Determinant can only be calculated for square matrices."
    /\ isSquare(self) /\ self.rows = 1 =>
         ret.err = "" /\ NumEq(ret.v, FromInt(src.data[1]))
    /\ isSquare(self) /\ self.rows = 2 =>
         ret.err = "" /\ NumEq(ret.v, FromInt(src.data[1] * src.data[4]
                                             - src.data[2] * src.data[3]))
    /\ isSquare(self) /\ self.rows = 3 =>
         ret.err = ""
         /\ NumEq(ret.v,
                  FromInt(src.data[1] * (src.data[5] * src.data[9] - src.data[6] * src.data[8])
                          - src.data[2] * (src.data[4] * src.data[9] - src.data[6] * src.data[7])
                          + src.data[3] * (src.data[4] * src.data[8] - src.data[5] * src.data[7])))

\* C6, its case: the determinant of a 3 x 3 matrix was computed and is not 0
C6_Witness ==
  call = "determinant" /\ self.rows = 3 /\ self.cols = 3 /\ ret.err = "" /\ ~IsZero(ret.v)

\* C7: identity(n).determinant() equals 1 for n = 1, 2, 3 and 4 (for every
\* n up to MaxN).
C7_IdentityDeterminant ==
  call = "determinant" /\ src.f = "identity" => ret.err = "" /\ ret.v = FromInt(1)

\* C7, its case: the determinant of identity(4), by the LU path, is 1
C7_Witness ==
  call = "determinant" /\ src.f = "identity" /\ self.rows = 4 /\ ret.v = FromInt(1)

\* C8: rank() returns the number of linearly independent rows of the matrix,
\* for every shape.
C8_RankIsExact ==
  call = "rank" /\ rank0 = -1 => ret.err = "" /\ ret.v = ExactRank(src)

\* C9: rank() is invariant under elementary row operations: after a row was
\* multiplied by a non-zero scalar, or a multiple of a row added to another,
\* rank() returns what it returned before.
C9_RankAfterRowOperation ==
  call = "rank" /\ rank0 >= 0 => ret.v = rank0

\* C10: rank() works on a private copy: the receiver's rows, cols and every
\* element are the same after rank() returns as before the call.
C10_RankLeavesReceiver ==
  [][call' = "rank" => self' = self /\ heap'[self.elements] = heap[self.elements]]_vars

\* C10, its case: rank() swapped, normalised or eliminated rows of its copy
\* (the last buffer allocated), which differs from the receiver's buffer
C10_Witness ==
  /\ call = "rank" /\ ret.v >= 2
  /\ Len(heap) > self.elements
  /\ heap[Len(heap)] # heap[self.elements]

(***************************************************************************)
(* The properties of the store and of the elementary algebra.              *)
(***************************************************************************)
\* the matrices that exist: the receiver once constructed, the other
\* operand, and the matrix that the last call returned
Matrices ==
  (IF call \in {"start", "threw"} \/ self = Undefined THEN {} ELSE {self})
  \cup (IF arg.other # Undefined THEN {arg.other} ELSE {})
  \cup (IF LastCall \in (ObjectCalls \ {"toFlatArray"}) \cup {"add.subtract", "transpose.transpose"}
           /\ ret.err = ""
        THEN {ret.v} ELSE {})

\* C11: every matrix that exists has rows >= 1, cols >= 1 and
\* elements.length = rows * cols, at construction and after setElement, set
\* and addSelf, whether they returned or threw; new MatrixN with rows <= 0
\* or cols <= 0 throws "Matrix dimensions must be positive."; a matrix
\* constructed without initialData holds zeros.
C11_MatrixInvariants ==
  /\ \A M \in Matrices :
        M.rows >= 1 /\ M.cols >= 1 /\ Len(heap[M.elements]) = M.rows * M.cols
  /\ call \in {"new", "threw"} /\ (src.rows <= 0 \/ src.cols <= 0) =>
        call = "threw" /\ ret.err = "Matrix dimensions must be positive."
  /\ call = "new" /\ src.seed = NoData =>
        \A i \in 0..(self.rows * self.cols - 1) : Load(heap, self, i) = Zero(0)

\* C11, its case: a matrix constructed without initialData, whose set was
\* called with one value too many and threw
C11_Witness ==
  /\ call = "set" /\ ret.err # "" /\ src.seed = NoData
  /\ Len(arg.values) = self.rows * self.cols + 1
  /\ self.rows = 2 /\ self.cols = 2

\* initialData agrees with rows x cols: rows * cols numbers, or rows arrays
\* of cols numbers each
Agrees(initialData, rows, cols) ==
  \/ /\ Len(initialData.data) = rows * cols
     /\ \A x \in 1..Len(initialData.data) : ~IsArray(initialData.data[x])
  \/ /\ Len(initialData.data) = rows
     /\ \A i \in 1..Len(initialData.data) :
           /\ IsArray(initialData.data[i])
           /\ Len(initialData.data[i].items) = cols
           /\ \A j \in 1..cols : ~IsArray(initialData.data[i].items[j])

\* the value of initialData meant for the x-th element, in row-major order
SeedValue(initialData, cols, x) ==
  IF IsArray(initialData.data[1])
  THEN initialData.data[((x - 1) \div cols) + 1].items[((x - 1) % cols) + 1]
  ELSE initialData.data[x]

ShapeMismatch ==
  {"Initial data dimensions do not match matrix dimensions.",
   "Initial flat data length does not match matrix dimensions."}

\* C12: new MatrixN(rows, cols, initialData) with rows, cols >= 1 throws one
\* of the two mismatch errors whenever initialData disagrees with rows x
\* cols (a flat array of another length, a 2D array with another number of
\* rows, with a row of another length, or with a row that is no array);
\* when it agrees, element (r, c) is the (r, c) value of initialData.
C12_SeedShape ==
  call \in {"new", "threw"} /\ src.f = "MatrixN"
  /\ src.rows >= 1 /\ src.cols >= 1 /\ src.seed.kind = "array" =>
     IF Agrees(src.seed, src.rows, src.cols)
     THEN /\ call = "new"
          /\ \A x \in 1..(src.rows * src.cols) :
                Load(heap, self, x - 1) = Fround(SeedValue(src.seed, src.cols, x))
     ELSE call = "threw" /\ ret.err \in ShapeMismatch

\* (row, col) is an element of M
InRange(M, row, col) == 0 <= row /\ row < M.rows /\ 0 <= col /\ col < M.cols

\* C13: getElement(r, c) and setElement(r, c, v) throw "Index out of
\* bounds." exactly when r is outside [0, rows) or c outside [0, cols);
\* otherwise setElement stores v, as a single-precision number, at
\* r * cols + c and changes no other element of any buffer, and a following
\* getElement(r, c) returns that value.
C13_ElementAccess ==
  [][/\ call' = "setElement" =>
         IF InRange(self, arg'.row, arg'.col)
         THEN /\ ret'.err = ""
              /\ heap' = [heap EXCEPT ![self.elements][arg'.row * self.cols + arg'.col + 1] =
                                         Fround(arg'.value)]
         ELSE ret'.err = "Index out of bounds." /\ heap' = heap
     /\ call' = "getElement" =>
         IF InRange(self, arg'.row, arg'.col)
         THEN /\ ret'.err = ""
              /\ ret'.v = heap[self.elements][arg'.row * self.cols + arg'.col + 1]
              /\ call = "setElement" /\ arg.row = arg'.row /\ arg.col = arg'.col =>
                    ret'.v = Fround(arg.value)
              /\ heap' = heap
         ELSE ret'.err = "Index out of bounds." /\ heap' = heap]_vars

\* C13, its case: setElement(1, 1, 0.1) on a matrix of two columns, then
\* getElement(1, 1), which returns 0.1 rounded to single precision
C13_Witness ==
  /\ call = "getElement" /\ ret.err = ""
  /\ arg.value = Div(FromInt(1), FromInt(10))
  /\ arg.row = 1 /\ arg.col = 1 /\ self.cols = 2
  /\ ret.v = Fround(arg.value) /\ ret.v # arg.value

\* C14: set(values) makes the buffer of the receiver the values, in
\* row-major order and as single-precision numbers, when values.length =
\* rows * cols; otherwise it throws "Input array length does not match
\* matrix dimensions." and changes nothing.
C14_SetReplacesBuffer ==
  [][call' = "set" =>
       IF Len(arg'.values) = self.rows * self.cols
       THEN /\ ret'.err = ""
            /\ heap' = [heap EXCEPT ![self.elements] =
                          [x \in 1..(self.rows * self.cols) |-> Fround(arg'.values[x])]]
       ELSE /\ ret'.err = "Input array length does not match matrix dimensions."
            /\ heap' = heap]_vars

\* C14, its case: set([0.1, 2, 3, 4]) on a 2 x 2 matrix
C14_Witness ==
  /\ call = "set" /\ ret.err = "" /\ self.rows = 2 /\ self.cols = 2
  /\ arg.values[1] = Div(FromInt(1), FromInt(10))
  /\ Load(heap, self, 0) = Fround(arg.values[1])
  /\ Load(heap, self, 3) = FromInt(4)

\* C15: clone() returns a matrix with the rows, the cols and the elements
\* of the receiver in a buffer of its own; setElement, set and addSelf on
\* the clone leave the buffer of the original as it was, and on the
\* original leave the buffer of the clone as it was.
C15_CloneIsIndependent ==
  [][/\ call' = "clone" =>
         /\ ret'.err = ""
         /\ ret'.v.rows = self.rows /\ ret'.v.cols = self.cols
         /\ ret'.v.elements # self.elements
         /\ heap'[ret'.v.elements] = heap[self.elements]
         /\ heap'[self.elements] = heap[self.elements]
     /\ call' = "mutate" /\ arg'.op = "clone" =>
         /\ arg'.target = "result" => heap'[self.elements] = heap[self.elements]
         /\ arg'.target = "receiver" => heap'[ret.v.elements] = heap[ret.v.elements]]_vars

\* C15, its case: the clone of a 2 x 2 matrix after set([9, 9, 9, 9]) on
\* it, the original still holding 2^24 first
C15_Witness ==
  /\ call = "mutate" /\ arg.op = "clone" /\ arg.target = "result" /\ arg.kind = "set"
  /\ self.rows = 2 /\ self.cols = 2
  /\ Load(heap, ret.v, 0) = FromInt(9)
  /\ Load(heap, self, 0) = FromInt(Big)

\* the calls that return a new matrix or a buffer, and the queries
Calls == ObjectCalls \cup {"determinant", "rank", "equals", "toArray", "toJSON"}

\* C16: add, subtract, multiplyScalar, divideScalar, multiply, transpose,
\* minor, invert, clone, determinant, rank, equals, toArray, toFlatArray and
\* toJSON leave every buffer that existed as it was, those of the receiver
\* and of the other operand among them; the buffer of a matrix they return
\* is a new one; a later setElement, set or addSelf on the result changes
\* no operand, and on an operand does not change the result.
C16_OperandsUntouched ==
  [][/\ call' \in Calls \cup {"add.subtract", "transpose.transpose"} =>
         /\ self' = self /\ arg'.other = arg.other
         /\ Len(heap') >= Len(heap)
         /\ \A b \in 1..Len(heap) : heap'[b] = heap[b]
         /\ ret'.err = "" /\ call' \in ObjectCalls \cup {"add.subtract", "transpose.transpose"} =>
               ret'.v.elements \notin 1..Len(heap)
     /\ call' = "mutate" /\ arg'.op \in Calls =>
         /\ arg'.target = "result" =>
               /\ heap'[self.elements] = heap[self.elements]
               /\ arg.other # Undefined =>
                     heap'[arg.other.elements] = heap[arg.other.elements]
         /\ arg'.target # "result" /\ arg'.op \in ObjectCalls =>
               heap'[ret.v.elements] = heap[ret.v.elements]]_vars

\* C16, its case: the inverse of a 4 x 4 matrix still holds what invert()
\* returned after set([9, 9, ...]) on the receiver
C16_Witness ==
  /\ call = "mutate" /\ arg.op = "invert" /\ arg.target = "receiver" /\ arg.kind = "set"
  /\ self.rows = 4
  /\ Load(heap, self, 0) = FromInt(9)
  /\ Load(heap, ret.v, 0) # FromInt(9)
  /\ ret.v.elements # self.elements

\* the sum of A(i, k) * B(k, j) over the first n values of k, in integers,
\* for A with acols columns and B with bcols columns, i and j from 0
RECURSIVE Sigma(_, _, _, _, _, _, _)
Sigma(A, acols, B, bcols, i, j, n) ==
  IF n = 0 THEN 0
  ELSE Sigma(A, acols, B, bcols, i, j, n - 1) + A[i * acols + n] * B[(n - 1) * bcols + j + 1]

\* the integers D have products with the elements of any operand of the
\* model that 32 bits hold
Small(D) == \A x \in 1..Len(D) : -128 < D[x] /\ D[x] < 128

\* C17: A.multiply(B) throws "Number of columns in the first matrix must
\* equal number of rows in the second matrix." exactly when A.cols #
\* B.rows; otherwise it returns an A.rows x B.cols matrix whose element
\* (i, j) is the sum over k of A(i, k) * B(k, j), as a single-precision
\* number.
C17_MultiplyIsRowByColumn ==
  call = "multiply" =>
     IF self.cols # arg.other.rows
     THEN ret.err = "Number of columns in the first matrix must equal number of rows in the second matrix."
     ELSE /\ ret.err = ""
          /\ ret.v.rows = self.rows /\ ret.v.cols = arg.other.cols
          /\ Small(src.data) \/ Small(arg.data) =>
                \A i \in 0..(self.rows - 1), j \in 0..(arg.other.cols - 1) :
                   Load(heap, ret.v, i * ret.v.cols + j) =
                      Fround(FromInt(Sigma(src.data, self.cols, arg.data, arg.other.cols,
                                           i, j, self.cols)))

\* C17, its case: [[1, 2], [3, 4]] times [[5, 6], [7, 8]] is
\* [[19, 22], [43, 50]]
C17_Witness ==
  /\ call = "multiply" /\ ret.err = ""
  /\ src.data = <<1, 2, 3, 4>> /\ self.cols = 2
  /\ arg.data = <<5, 6, 7, 8>> /\ arg.other.rows = 2
  /\ heap[ret.v.elements] = <<FromInt(19), FromInt(22), FromInt(43), FromInt(50)>>

\* the receiver and the other operand have the same rows and cols
SameShape == self.rows = arg.other.rows /\ self.cols = arg.other.cols

\* the integer n is a single-precision number
Representable(n) == Fround(FromInt(n)) = FromInt(n)

\* add and subtract throw exactly when the shapes differ, and otherwise
\* return a matrix of the shape of the receiver whose every element is the
\* sum or the difference of the two elements, as a single-precision number
ElementwiseSumAndDifference ==
  /\ call = "add" =>
        IF ~SameShape
        THEN ret.err = "Matrices must have the same dimensions for addition."
        ELSE /\ ret.err = ""
             /\ ret.v.rows = self.rows /\ ret.v.cols = self.cols
             /\ \A x \in 1..(self.rows * self.cols) :
                   Load(heap, ret.v, x - 1) = Fround(FromInt(src.data[x] + arg.data[x]))
  /\ call = "subtract" =>
        IF ~SameShape
        THEN ret.err = "Matrices must have the same dimensions for subtraction."
        ELSE /\ ret.err = ""
             /\ ret.v.rows = self.rows /\ ret.v.cols = self.cols
             /\ \A x \in 1..(self.rows * self.cols) :
                   Load(heap, ret.v, x - 1) = Fround(FromInt(src.data[x] - arg.data[x]))

\* C18, as stated: add and subtract throw exactly when the shapes differ and
\* otherwise return the elementwise sum and difference, and
\* A.add(B).subtract(B) has the shape and the elements of A.
C18_AddThenSubtractIsIdentity ==
  /\ ElementwiseSumAndDifference
  /\ call = "add.subtract" =>
        /\ ret.err = ""
        /\ ret.v.rows = self.rows /\ ret.v.cols = self.cols
        /\ heap[ret.v.elements] = heap[self.elements]

\* C18, amended: add and subtract throw exactly when the shapes differ and
\* otherwise return the elementwise sum and difference, each rounded to
\* single precision; A.add(B).subtract(B) has the shape of A, and the
\* elements of A when every sum A[i] + B[i] is a single-precision number.
C18_AddThenSubtractWhenExact ==
  /\ ElementwiseSumAndDifference
  /\ call = "add.subtract" =>
        /\ ret.err = ""
        /\ ret.v.rows = self.rows /\ ret.v.cols = self.cols
        /\ (\A x \in 1..(self.rows * self.cols) : Representable(src.data[x] + arg.data[x])) =>
              heap[ret.v.elements] = heap[self.elements]

\* C18, its case: A and B both 2 x 2 with 2^24 first, so that the sums are
\* 2^25, 2, 0 and -2, and A.add(B).subtract(B) holds the elements of A
C18_Witness ==
  /\ call = "add.subtract" /\ ret.err = ""
  /\ self.rows = 2 /\ self.cols = 2
  /\ src.data[1] = Big /\ arg.data[1] = Big
  /\ ret.v.elements # self.elements
  /\ heap[ret.v.elements] = heap[self.elements]

\* C19: addSelf(other) throws "Matrices must have the same dimensions for
\* addition." exactly when the shapes differ, changing nothing; otherwise
\* every element i of the receiver becomes receiver[i] + other[i], as a
\* single-precision number, in the receiver's own buffer, the receiver
\* itself is returned, and every other buffer, that of another other
\* among them, is as it was.
C19_AddSelfInPlace ==
  [][call' = "addSelf" =>
       IF ~SameShape
       THEN /\ ret'.err = "Matrices must have the same dimensions for addition."
            /\ heap' = heap
       ELSE /\ ret'.err = ""
            /\ ret'.v = self /\ self' = self
            /\ Len(heap') = Len(heap)
            /\ \A x \in 1..(self.rows * self.cols) :
                  Load(heap', self, x - 1) = Fround(FromInt(src.data[x] + arg.data[x]))
            /\ \A b \in 1..Len(heap) : b # self.elements => heap'[b] = heap[b]]_vars

\* C19, its case: A.addSelf(B) for A = [[1, 2], [3, 4]] and another matrix
\* B with 2^24 first: A[0] becomes 2^24, the sum 2^24 + 1 rounded
C19_Witness ==
  /\ call = "addSelf" /\ ret.err = "" /\ ret.v = self
  /\ self.rows = 2 /\ self.cols = 2
  /\ arg.other.elements # self.elements
  /\ src.data = <<1, 2, 3, 4>> /\ arg.data[1] = Big
  /\ Load(heap, self, 0) = FromInt(Big)
  /\ Load(heap, arg.other, 0) = FromInt(Big)

\* C20: transpose() of a rows x cols matrix returns a cols x rows matrix
\* whose element (j, i) is the element (i, j) of the receiver, and
\* transpose().transpose() returns a matrix with the rows, the cols and
\* exactly the elements of the receiver, square or not.
C20_TransposeTwice ==
  /\ call = "transpose" =>
        /\ ret.err = ""
        /\ ret.v.rows = self.cols /\ ret.v.cols = self.rows
        /\ \A i \in 0..(self.rows - 1), j \in 0..(self.cols - 1) :
              Load(heap, ret.v, j * ret.v.cols + i) = Load(heap, self, i * self.cols + j)
  /\ call = "transpose.transpose" =>
        /\ ret.err = ""
        /\ ret.v.rows = self.rows /\ ret.v.cols = self.cols
        /\ heap[ret.v.elements] = heap[self.elements]

\* C20, its case: the 2 x 3 matrix [[1, 2, 3], [4, 5, 6]] transposed twice
C20_Witness ==
  /\ call = "transpose.transpose" /\ ret.err = ""
  /\ self.rows = 2 /\ self.cols = 3 /\ src.data = <<1, 2, 3, 4, 5, 6>>
  /\ ret.v.elements # self.elements
  /\ heap[ret.v.elements] = heap[self.elements]
  /\ Load(heap, ret.v, 1) = FromInt(2)

(***************************************************************************)
(* The properties of minor, of the fixed-size classes, of JSON, of the LU  *)
(* decomposition and of the loop of rank.                                  *)
(***************************************************************************)
\* the integers of the matrix of a seed without its row r and its column
\* c, from 0, the others in their order
Submatrix(s, r, c) ==
  [x \in 1..((s.rows - 1) * (s.cols - 1)) |->
     Entry(s, Remove(Ordered(1..s.rows), r + 1)[((x - 1) \div (s.cols - 1)) + 1],
              Remove(Ordered(1..s.cols), c + 1)[((x - 1) % (s.cols - 1)) + 1])]

\* minor throws on a matrix that is not square, and the rows and the
\* elements of what it returns on an n x n matrix for r and c below n
MinorOf(least) ==
  call = "minor" =>
     IF self.rows # self.cols
     THEN ret.err = "Minor can only be calculated for square matrices."
     ELSE InRange(self, arg.row, arg.col) /\ self.rows >= least =>
             /\ ret.err = ""
             /\ ret.v.rows = self.rows - 1 /\ ret.v.cols = self.cols - 1
             /\ Len(heap[ret.v.elements]) = (self.rows - 1) * (self.cols - 1)
             /\ \A x \in 1..((self.rows - 1) * (self.cols - 1)) :
                   Load(heap, ret.v, x - 1) = FromInt(Submatrix(src, arg.row, arg.col)[x])

\* C21, as stated: minor(r, c) throws on a matrix that is not square; on
\* every n x n matrix with 0 <= r, c < n it returns the (n - 1) x (n - 1)
\* matrix of the other rows and columns in their order.
C21_MinorDeletesRowAndColumn == MinorOf(1)

\* C21, amended: the same for n >= 2; on a 1 x 1 matrix minor(0, 0) throws
\* "Matrix dimensions must be positive.", there being no 0 x 0 matrix.
C21_MinorOfTwoByTwoAndLarger ==
  /\ MinorOf(2)
  /\ call = "minor" /\ self.rows = 1 /\ self.cols = 1 =>
        ret.err = "Matrix dimensions must be positive."

\* C21, its case: minor(0, 2) of [[1, 2, 3], [4, 5, 6], [7, 8, 9]] is
\* [[4, 5], [7, 8]]
C21_Witness ==
  /\ call = "minor" /\ ret.err = ""
  /\ src.data = <<1, 2, 3, 4, 5, 6, 7, 8, 9>> /\ arg.row = 0 /\ arg.col = 2
  /\ ret.v.rows = 2 /\ ret.v.cols = 2
  /\ heap[ret.v.elements] = <<FromInt(4), FromInt(5), FromInt(7), FromInt(8)>>

\* the size of a fixed-size class, and the two errors of its constructor
SizeOf(class) == CASE class = "Mat2" -> 2 [] class = "Mat3" -> 3 [] class = "Mat4" -> 4

FixedShapeMismatch(class) ==
  CASE class = "Mat2" -> {"Mat2 initial data must be 2x2.",
                          "Mat2 initial flat data must have 4 elements."}
    [] class = "Mat3" -> {"Mat3 initial data must be 3x3.",
                          "Mat3 initial flat data must have 9 elements."}
    [] class = "Mat4" -> {"Mat4 initial data must be 4x4.",
                          "Mat4 initial flat data must have 16 elements."}

\* C22: new Mat2, new Mat3 and new Mat4 (size 2, 3, 4) return a size x size
\* matrix when initialData is absent, is size * size numbers, or is size
\* arrays of size numbers each; with any other initialData they throw one
\* of the two errors of their class.
C22_FixedSizeSeed ==
  call \in {"new", "threw"} /\ src.f \in {"Mat2", "Mat3", "Mat4"} =>
     IF src.seed.kind = "none" \/ Agrees(src.seed, SizeOf(src.f), SizeOf(src.f))
     THEN /\ call = "new"
          /\ self.rows = SizeOf(src.f) /\ self.cols = SizeOf(src.f)
          /\ Len(heap[self.elements]) = SizeOf(src.f) * SizeOf(src.f)
     ELSE call = "threw" /\ ret.err \in FixedShapeMismatch(src.f)

\* M as a MatrixN and no more: the same rows, cols and buffer
Generic(M) == [rows |-> M.rows, cols |-> M.cols, elements |-> M.elements]

\* the calls on a fixed-size matrix that return a matrix
FixedCalls ==
  {"clone", "add", "subtract", "multiplyScalar", "divideScalar", "multiply", "transpose",
   "minor", "invert"}

\* the call that returned, made on MatrixN objects with the buffers of the
\* receiver and of the other operand
GenericCall ==
  CASE call = "clone" -> clone(heap, Generic(self))
    [] call = "add" -> add(heap, Generic(self), Generic(arg.other))
    [] call = "subtract" -> subtract(heap, Generic(self), Generic(arg.other))
    [] call = "multiply" -> multiply(heap, Generic(self), Generic(arg.other))
    [] call = "multiplyScalar" -> multiplyScalar(heap, Generic(self), arg.value)
    [] call = "divideScalar" -> divideScalar(heap, Generic(self), arg.value)
    [] call = "transpose" -> transpose(heap, Generic(self))
    [] call = "minor" -> minor(heap, Generic(self), arg.row, arg.col)
    [] call = "invert" -> invert(heap, Generic(self))

\* C23: add, subtract, multiply, multiplyScalar, divideScalar, transpose,
\* minor, invert and clone called on a Mat2, Mat3 or Mat4 return a MatrixN
\* that is of no fixed-size class, with the elements that the same call
\* returns on a MatrixN of the same elements.
C23_FixedSizeReturnsGeneric ==
  call \in FixedCalls /\ ClassOf(self) # "MatrixN" /\ ret.err = "" =>
     /\ ClassOf(ret.v) = "MatrixN"
     /\ \E g \in {GenericCall} :
           /\ g.err = ""
           /\ g.v.rows = ret.v.rows /\ g.v.cols = ret.v.cols
           /\ g.h[g.v.elements] = heap[ret.v.elements]

\* C23, its case: Mat2.fromValues(1, 2, 3, 4) times Mat2.fromValues(5, 6, 7,
\* 8) is a MatrixN, no Mat2, with the elements 19, 22, 43, 50
C23_Witness ==
  /\ call = "multiply" /\ ret.err = ""
  /\ ClassOf(self) = "Mat2" /\ ClassOf(arg.other) = "Mat2"
  /\ src.data = <<1, 2, 3, 4>> /\ arg.data = <<5, 6, 7, 8>>
  /\ ClassOf(ret.v) = "MatrixN"
  /\ heap[ret.v.elements] = <<FromInt(19), FromInt(22), FromInt(43), FromInt(50)>>

\* json is what fromJSON refuses: no object, elements missing, no array or
\* empty, rows or cols no number
Malformed(json) ==
  \/ json.t # "object"
  \/ json.elements.t # "array"
  \/ Len(json.elements.data) = 0
  \/ json.rows.t # "number"
  \/ json.cols.t # "number"

\* self has json.rows rows, json.cols cols and the elements json.elements
\* in their order
Reconstructed(json) ==
  /\ ret.err = ""
  /\ self.rows = json.rows.n /\ self.cols = json.cols.n
  /\ Len(heap[self.elements]) = Len(json.elements.data)
  /\ \A x \in 1..Len(json.elements.data) :
        Load(heap, self, x - 1) = Fround(json.elements.data[x])

\* C24, as stated: fromJSON(json) throws "Invalid JSON format." when json
\* is missing, when elements is missing, no array or empty, or when rows
\* or cols is no number; otherwise it returns the rows x cols matrix of the
\* elements.
C24_FromJSONReconstructs ==
  call = "fromJSON" =>
     IF Malformed(arg.value)
     THEN ret.err = "Invalid JSON format."
     ELSE Reconstructed(arg.value)

\* C24, amended: fromJSON(json) throws "Invalid JSON format." in the cases
\* above; otherwise it is new MatrixN(rows, cols, elements): it throws
\* "Matrix dimensions must be positive." for rows or cols <= 0, throws
\* "Initial flat data length does not match matrix dimensions." when the
\* numbers of elements are not rows * cols, and else returns the rows x cols
\* matrix of the elements.
C24_FromJSONAsConstructor ==
  call = "fromJSON" =>
     CASE Malformed(arg.value) -> ret.err = "Invalid JSON format."
       [] ~Malformed(arg.value) /\ (arg.value.rows.n <= 0 \/ arg.value.cols.n <= 0) ->
            ret.err = "Matrix dimensions must be positive."
       [] ~Malformed(arg.value) /\ arg.value.rows.n > 0 /\ arg.value.cols.n > 0
          /\ Len(arg.value.elements.data) # arg.value.rows.n * arg.value.cols.n ->
            ret.err = "Initial flat data length does not match matrix dimensions."
       [] OTHER -> Reconstructed(arg.value)

\* C24, its case: fromJSON({rows: 2, cols: 2, elements: [1, 2, 3, 4]})
C24_Witness ==
  /\ call = "fromJSON" /\ ret.err = ""
  /\ arg.value = Obj(Num(2), Num(2), Arr(<<FromInt(1), FromInt(2), FromInt(3), FromInt(4)>>))
  /\ self.rows = 2 /\ self.cols = 2
  /\ heap[self.elements] = <<FromInt(1), FromInt(2), FromInt(3), FromInt(4)>>

\* C30: MatrixN.fromJSON(A.toJSON()) returns, for every matrix A, a matrix
\* with the rows, the cols and the elements of A, in a buffer that is not
\* the buffer of A, which is as it was.
C30_JSONRoundTrip ==
  [][call' = "toJSON.fromJSON" =>
       /\ ret'.err = ""
       /\ ret'.v.rows = self.rows /\ ret'.v.cols = self.cols
       /\ ret'.v.elements # self.elements
       /\ ret'.v.elements \notin 1..Len(heap)
       /\ heap'[ret'.v.elements] = heap[self.elements]
       /\ heap'[self.elements] = heap[self.elements]]_vars

\* C30, its case: the round trip of the 1 x 2 matrix [[2^24, 1]]
C30_Witness ==
  /\ call = "toJSON.fromJSON" /\ ret.err = ""
  /\ self.rows = 1 /\ self.cols = 2 /\ src.data = <<Big, 1>>
  /\ ret.v.rows = 1 /\ ret.v.cols = 2
  /\ ret.v.elements # self.elements
  /\ heap[ret.v.elements] = <<FromInt(Big), FromInt(1)>>

\* C27: when setElement throws "Index out of bounds.", set throws "Input
\* array length does not match matrix dimensions." or addSelf throws
\* "Matrices must have the same dimensions for addition.", the rows, the
\* cols and every element of the receiver, and every other buffer, are as
\* they were before the call.
C27_FailedMutatorChangesNothing ==
  [][call' \in {"setElement", "set", "addSelf"} /\ ret'.err # "" =>
       /\ ret'.err = CASE call' = "setElement" -> "Index out of bounds."
                       [] call' = "set" -> "Input array length does not match matrix dimensions."
                       [] call' = "addSelf" -> "Matrices must have the same dimensions for addition."
       /\ self' = self
       /\ heap' = heap]_vars

\* C27, its case: setElement(2, 0, 0.1) on a 2 x 2 matrix with 2^24 first,
\* which throws and leaves 2^24 there
C27_Witness ==
  /\ call = "setElement" /\ ret.err = "Index out of bounds."
  /\ arg.row = 2 /\ arg.col = 0 /\ arg.value = Div(FromInt(1), FromInt(10))
  /\ self.rows = 2 /\ self.cols = 2
  /\ heap[self.elements] = <<FromInt(Big), FromInt(1), FromInt(0), FromInt(-1)>>

\* L has 1 on its diagonal and 0 above it; U has 0 below its diagonal
UnitLower(h, L) ==
  \A i \in 0..(L.rows - 1), j \in 0..(L.cols - 1) :
     /\ i = j => Get(h, L, i, j) = FromInt(1)
     /\ i < j => IsZero(Get(h, L, i, j))

Upper(h, U) ==
  \A i \in 0..(U.rows - 1), j \in 0..(U.cols - 1) : i > j => IsZero(Get(h, U, i, j))

\* P, the outcome of L.multiply(U), has the elements of A within the
\* tolerance of the tests
Reproduces(P, h, A) ==
  /\ P.err = ""
  /\ P.v.rows = A.rows /\ P.v.cols = A.cols
  /\ \A i \in 0..(A.rows - 1), j \in 0..(A.cols - 1) :
        Within(Get(P.h, P.v, i, j), Get(h, A, i, j))

\* the leading principal submatrices of the sizes below n of the matrix of a
\* seed have determinants that are not 0
LeadingNonSingular(s) ==
  \A k \in 1..(s.rows - 1) : ExactMinor(s, Ordered(1..k), Ordered(1..k)) # 0

\* L and U are n x n, L unit lower triangular and U upper triangular
Triangular ==
  /\ ret.err = ""
  /\ ret.v.L.rows = self.rows /\ ret.v.L.cols = self.rows
  /\ ret.v.U.rows = self.rows /\ ret.v.U.cols = self.rows
  /\ UnitLower(heap, ret.v.L)
  /\ Upper(heap, ret.v.U)

\* C25, as stated: luDecomposition() of every square matrix A returns L
\* with 1 on the diagonal and 0 above it and U with 0 below the diagonal,
\* and L times U reproduces A.
C25_LUReproducesEverySquare ==
  call = "luDecomposition" =>
     /\ Triangular
     /\ Reproduces(multiply(heap, ret.v.L, ret.v.U), heap, self)

\* C25, amended: L and U are triangular so for every square A; L times U
\* reproduces A, up to rounding, when the leading principal submatrices of
\* A of the sizes 1 to n - 1 are not singular.
C25_LUReproducesWithoutZeroPivot ==
  call = "luDecomposition" =>
     /\ Triangular
     /\ LeadingNonSingular(src) =>
           Reproduces(multiply(heap, ret.v.L, ret.v.U), heap, self)

\* C25, its case: the 4 x 4 matrix of the README, whose L has an element
\* that is no integer
C25_Witness ==
  /\ call = "luDecomposition" /\ ret.err = ""
  /\ src.data = <<3, 2, 0, 1, 4, 0, 1, 2, 3, 0, 2, 1, 9, 2, 3, 1>>
  /\ LeadingNonSingular(src)
  /\ Get(heap, ret.v.L, 1, 0) # FromInt(1)
  /\ ~IsZero(Get(heap, ret.v.L, 1, 0))
  /\ Reproduces(multiply(heap, ret.v.L, ret.v.U), heap, self)

\* the rows that the loop of rank() has not passed: from the row cursor on
Below(st) == st.row..(st.copy.rows - 1)

\* no row from the cursor on has, in the column of the pass, an absolute
\* value greater than the row pivot has
Largest(st, pivot) ==
  /\ pivot \in Below(st)
  /\ \A r \in Below(st) :
        ~Less(Abs(Get(st.h, st.copy, pivot, st.col)), Abs(Get(st.h, st.copy, r, st.col)))

\* the greatest absolute value of the column is below 1e-12
Negligible(st) ==
  \A r \in Below(st) : Less(Abs(Get(st.h, st.copy, r, st.col)), PivotEpsilon)

\* from st to nx the row pivot came to the cursor, divided by its element
\* of the column, and the rows below it have 0 in the column
Reduced(st, nx, pivot) ==
  /\ \A c \in st.col..(st.copy.cols - 1) :
        Get(nx.h, nx.copy, st.row, c)
          = Fround(Div(Get(st.h, st.copy, pivot, c), Get(st.h, st.copy, pivot, st.col)))
  /\ \A r \in (st.row + 1)..(st.copy.rows - 1) : IsZero(Get(nx.h, nx.copy, r, st.col))

\* C26: in the loop of rank(), for each column processed while rows remain,
\* the pivot is the row at or below the cursor with the largest absolute
\* value in the column; below 1e-12 the column is skipped and neither rank
\* nor the row cursor changes; otherwise the pivot row is swapped in,
\* normalised and eliminated from the rows below and the row cursor and
\* rank advance by exactly one: rank equals the row cursor at every step.
C26_RankLoopStep ==
  [][call = "rank loop" /\ call' = "rank loop" =>
       /\ ret.v.rank = ret.v.row /\ ret'.v.rank = ret'.v.row
       /\ ret'.v.col = ret.v.col + 1
       /\ Largest(ret.v, findPivot(ret.v.h, ret.v.copy, ret.v.col, ret.v.row, ret.v.copy.rows))
       /\ IF Negligible(ret.v)
          THEN ret'.v.row = ret.v.row /\ ret'.v.rank = ret.v.rank /\ heap' = heap
          ELSE /\ ret'.v.row = ret.v.row + 1 /\ ret'.v.rank = ret.v.rank + 1
               /\ Reduced(ret.v, ret'.v,
                          findPivot(ret.v.h, ret.v.copy, ret.v.col, ret.v.row, ret.v.copy.rows))
    ]_vars

\* C26, its case: the second column was skipped after a pivot row below the
\* cursor was swapped in for the first
C26_Witness ==
  /\ call = "rank loop"
  /\ ret.v.row = 1 /\ ret.v.col = 2 /\ ret.v.rank = 1
  /\ Get(heap, self, 0, 0) # FromInt(0)
  /\ Less(Abs(Get(heap, self, 0, 0)), Abs(Get(heap, self, 1, 0)))

\* the smaller of the numbers of rows and of columns
MinDim(this) == IF this.rows < this.cols THEN this.rows ELSE this.cols

\* the elements that a pass of the loop from st may touch: the element of
\* the cursor, and the rows from the cursor on in all their columns
Accessed(st) == {<<st.row, st.col>>} \cup (Below(st) \X (0..(st.copy.cols - 1)))

\* the cursors of the loop are within the matrix, and a pass from st
\* touches elements within it only
WithinMatrix(st) ==
  /\ st.row \in 0..st.copy.rows
  /\ st.col \in 0..st.copy.cols
  /\ st.rank \in 0..MinDim(st.copy)
  /\ rankContinues(st) =>
        \A p \in Accessed(st) : getElement(st.h, st.copy, p[1], p[2]).err = ""

\* C29: rank() terminates for every matrix and its result r satisfies
\* 0 <= r <= min(rows, cols); the row cursor never exceeds rows and no
\* element access in the loop is out of bounds.  It terminates because a
\* pass moves on by one column, of which cols - col remain: the loop makes
\* at most cols passes, then returns.
C29_RankTerminates ==
  /\ call = "rank loop" =>
        /\ WithinMatrix(ret.v)
        /\ rankContinues(ret.v) => rankStep(ret.v).col = ret.v.col + 1
  /\ call = "rank end" =>
        /\ ~rankContinues(ret.v)
        /\ ret.v.rank \in 0..MinDim(self)
        /\ rankReturn(ret.v).v = ret.v.rank
        /\ rank(heap, self).v = ret.v.rank

\* C29, its case: the loop left a 2 x 3 matrix when its rows ran out, with
\* a column not passed
C29_Witness ==
  /\ call = "rank loop" /\ ~rankContinues(ret.v)
  /\ self.rows = 2 /\ self.cols = 3
  /\ ret.v.row = 2 /\ ret.v.col = 2 /\ ret.v.rank = 2

\* a 4 x 4 matrix on which LU succeeds: its leading principal submatrices
\* of the sizes 1, 2 and 3 are not singular
LUSucceeds == self.rows = 4 /\ self.cols = 4 /\ LeadingNonSingular(src)

====
